---- MODULE Spec2Model ----
(***************************************************************************)
(* Model of the pump-or-dump backend (pdrest): the roulette engine, the    *)
(* bet settlement paths, the points ledger with its reconciliation, and    *)
(* the achievement claim.  Every store call (one SQL statement) is one     *)
(* atomic step; a service method is the sequence of its store calls, run   *)
(* by a request process, so two requests interleave between statements     *)
(* exactly as two HTTP requests do on the connection pool.                 *)
(***************************************************************************)
EXTENDS Integers, Sequences, FiniteSets, TLC

(***************************************************************************)
(* Bounds of the model.                                                    *)
(***************************************************************************)
MaxCalls == 6
MaxTime == 5
MaxBets == 1
MaxRestarts == 1

Procs == {"p1", "p2"}
\* in the runs with one client per role: the client that opens bets, or
\* the only client, and the client that asks for a bet's status
Opener == "p1"
Poller == "p2"

(***************************************************************************)
(* Program data: the seeded roulette config and the startup prize values.  *)
(***************************************************************************)
StartupMaxSpins == 3
StartupConfigID == 1

RouletteConfig ==
    [id |-> StartupConfigID, type |-> "on_start", event_id |-> "startup",
     max_spins |-> StartupMaxSpins, is_active |-> TRUE]

\* a roulette_config row of type during_event, as an operator adds one for
\* an event: a single spin, bound to event "e2"
EventConfigID == 2
EventMaxSpins == 1
EventRouletteConfig ==
    [id |-> EventConfigID, type |-> "during_event", event_id |-> "e2",
     max_spins |-> EventMaxSpins, is_active |-> TRUE]

\* a roulette_config row of type during_event bound to event "e3", one of
\* the seeded events that have no prize_values rows
EmptyEventConfigID == 3
EmptyEventRouletteConfig ==
    [id |-> EmptyEventConfigID, type |-> "during_event", event_id |-> "e3",
     max_spins |-> EventMaxSpins, is_active |-> TRUE]

NoConfig == [id |-> 0, type |-> "", event_id |-> "", max_spins |-> 0,
             is_active |-> FALSE]

RouletteConfigs ==
    {RouletteConfig, EventRouletteConfig, EmptyEventRouletteConfig}

\* SELECT ... FROM roulette_config WHERE id = $1
GetRouletteConfigByID(id) ==
    IF \E c \in RouletteConfigs : c.id = id
    THEN CHOOSE c \in RouletteConfigs : c.id = id
    ELSE NoConfig

\* SELECT ... WHERE roulette_type = $1 AND event_id = $2 AND is_active
GetRouletteConfigByType(type, event) ==
    IF \E c \in RouletteConfigs : c.type = type /\ c.event_id = event
    THEN CHOOSE c \in RouletteConfigs : c.type = type /\ c.event_id = event
    ELSE NoConfig

\* prize_values rows of event "startup": id -> value in points
StartupPrizeValues == (7 :> 10000000) @@ (8 :> 5000000)

\* the prize_values row of event "e2"
EventPrizeValues == (10 :> 50)

PrizeValues == StartupPrizeValues @@ EventPrizeValues

PrizeValuesByEventID(event) ==
    IF event = "startup" THEN DOMAIN StartupPrizeValues
    ELSE IF event = "e2" THEN DOMAIN EventPrizeValues
    ELSE {}

(***************************************************************************)
(* Strings that hold a prize: NULL, the decimal digits of a number of      *)
(* points (fmt.Sprintf("%d", v)), or free text.                            *)
(***************************************************************************)
NullStr == [k |-> "null", n |-> 0]
EmptyStr == [k |-> "empty", n |-> 0]
Digits(v) == [k |-> "digits", n |-> v]
DefaultPrize == [k |-> "text", n |-> 0]
LabelUSDT(v) == [k |-> "usdt", n |-> v]

NoUser == "none"
SessionUser == "uS"
Users == {"u1", "u2"}

(***************************************************************************)
(* Time is counted in thirds of a second, so that a wall-clock reading is  *)
(* never exactly half way between two whole seconds.                       *)
(***************************************************************************)
TicksPerSecond == 3
StartTime == 4
Seconds(n) == n * TicksPerSecond
NullTime == -1
NullPrice == 0

VARIABLES
    now,            \* wall clock
    pc,             \* pc[p]: the store call request p performs next
    loc,            \* loc[p]: the local variables of request p's handler
    calls,          \* requests started so far
    preauth_token,  \* the roulette_preauth_token row of the derived token
    roulette,       \* the roulette row of that token
    users,          \* is there a users row for the session
    got_prizes,     \* got_prizes rows, in insertion order
    rating,         \* rating (ledger) rows, in insertion order
    resp,           \* the response returned last, by any request
    spinObs,        \* history: successful spins, by the spin_number observed
    bets,           \* bets rows, in insertion order (id = position)
    sched,          \* sched[b]: the scheduler's goroutine for bet b
    closeWrites,    \* history: closeWrites[b] = close_price writes on bet b
    claimOk,        \* history: claimOk[b] = successful claims of bet b
    reconSnap,      \* history: the tables as the last reconciliation left them
    rerun,          \* history: rows appended by a reconciliation re-run
    user_achievements, \* user_achievements rows of BetUser, by achievement
    achOk,          \* history: achOk[a] = successful claims of achievement a
    solo,           \* history: the last roulette request that began alone
    winCalls,       \* history: completed UpdateWinAchievementsOnBet calls
    user_events,    \* the user_events rows of BetUser, by event
    takeOk,         \* history: successful TakeEventPrize calls
    timers,         \* the bets with an entry in the scheduler's timers map
    taskLog,        \* history: taskLog[b] = what the scheduler did for bet b
    shut            \* the scheduler's context and its Shutdown call

schedVars == <<timers, taskLog, shut>>
betVars == <<bets, sched, closeWrites, schedVars>>
ledgerVars == <<claimOk, reconSnap, rerun>>
eventVars == <<user_events, takeOk>>
achVars == <<user_achievements, achOk, winCalls, eventVars>>

vars == <<now, pc, loc, calls, preauth_token, roulette, users, got_prizes,
          rating, resp, spinObs, bets, sched, closeWrites, claimOk,
          reconSnap, rerun, user_achievements, achOk, solo, winCalls,
          user_events, takeOk, timers, taskLog, shut>>

NoToken == [exists |-> FALSE, user |-> NoUser, config |-> 0, is_used |-> FALSE,
            token |-> <<>>]
NoRoulette ==
    [exists |-> FALSE, spin_number |-> 0, prize |-> NullStr,
     prize_taken |-> FALSE, prize_taken_at |-> 0, pv_id |-> 0]

\* the config row a handler holds once it has resolved the token: the row
\* of the token's roulette_config_id, which no statement ever updates
Config == GetRouletteConfigByID(preauth_token.config)

NoTimer == [st |-> "none", closeAt |-> NullTime, closeTime |-> NullTime,
            price |-> NullPrice]
\* the time ScheduleBetClosing was called for a bet, tasks started for it,
\* immediate settlements, settlements by a task and those of them that
\* returned an error, calls of its cancel function through
\* CancelBetClosing, and whether the task ended on a cancel signal without
\* settling
NoTaskLog == [at |-> NullTime, started |-> 0, immediate |-> 0, settles |-> 0,
              failed |-> 0, cancels |-> 0, cancelled |-> FALSE]
\* the http client's timeout in GetPrice and the context timeout of
\* closeBet's store call, in seconds
TickerTimeout == 5
StoreTimeout == 5
\* the scheduler of a running process: Shutdown not called; elapsed and
\* spent count the seconds since Shutdown was called and the seconds the
\* call a task is in has run since then; boots counts the process starts
SchedulerUp == [st |-> "up", elapsed |-> 0, boots |-> 0,
                spent |-> [b \in 1..MaxBets |-> 0]]

NoSnap == <<>>

\* the achievements table: id -> steps and prize_id
FirstWinPrizeID == 9
Achievements == [first_bet_success |-> [steps |-> 1, prize_id |-> FirstWinPrizeID]]
\* the prize_values row of the first-win achievement
FirstWinPrizeValue == [id |-> FirstWinPrizeID, event_id |-> "e4", value |-> 10,
                       label |-> LabelUSDT(10)]
AchievementIDs == DOMAIN Achievements
\* the win-count achievements of the catalog: wins_10 stands for all of
\* wins_10 .. wins_10000, which differ in their steps only and have no prize
WinAchievements == [wins_10 |-> [steps |-> 10, prize_id |-> 0]]
\* the competition event of the week: its deadline, its prize_values rows
\* and the placement achievements bound to them
WeekEventID == "best_of_the_week_09_02_2026"
WeekDeadline == StartTime + 1
\* the event of the first-win prize, and the events with prize values that
\* BetUser takes part in; the runs start shortly before their deadlines
FirstWinEventID == "e4"
PrizeEvents == {WeekEventID, FirstWinEventID}
EventDeadline(ev) == WeekDeadline
WeekPrizeValues ==
    {[id |-> 11, value |-> 50, label |-> LabelUSDT(50)],
     [id |-> 12, value |-> 30, label |-> LabelUSDT(30)],
     [id |-> 13, value |-> 10, label |-> LabelUSDT(10)]}
WeekAchievements ==
    [best_of_the_week_09_02_2026_first |-> [steps |-> 1, prize_id |-> 11],
     best_of_the_week_09_02_2026_second |-> [steps |-> 1, prize_id |-> 12],
     best_of_the_week_09_02_2026_third |-> [steps |-> 1, prize_id |-> 13]]
AchievementCatalog == Achievements @@ WinAchievements @@ WeekAchievements
NoUserEvent == [exists |-> FALSE, has_prise_status |-> "null",
                prize_value_id |-> 0, prize_taken_status |-> FALSE]
\* the ids UpdateWinAchievementsOnBet walks through, in its order
WinAchievementIDs == <<"first_bet_success", "wins_10">>
NoUserAchievement == [exists |-> FALSE, steps_got |-> 0, need_steps |-> 0,
                      claimed_status |-> FALSE]

\* points are 10^9 * g + u, kept as the two integers g and u
Points(g, u) == [g |-> g, u |-> u]
ZeroPoints == Points(0, 0)

NoLoc == [op |-> "none"]
NoResp == [op |-> "none", ok |-> FALSE, err |-> "", spinsLeft |-> 0,
           prize |-> NullStr, token |-> FALSE, bet |-> 0,
           close_price |-> NullPrice, total |-> ZeroPoints, user |-> "",
           list |-> <<>>, session |-> <<>>, ip |-> <<>>]

Idle(p) == pc[p] = "idle"
Quiescent == \A q \in Procs : Idle(q)

\* History of a roulette request that began while no other request was
\* running: what it asked (rq), the rows and table sizes it found, and
\* whether it has returned.  It is forgotten as soon as another request
\* begins, so while it is kept the request ran alone and, once done, resp
\* is its response.
NoSolo == [p |-> "none"]
SoloBegin(p, rq, done) ==
    IF Quiescent
    THEN [p |-> p, rq |-> rq, tok |-> preauth_token, rl |-> roulette,
          prizes |-> Len(got_prizes), ledger |-> Len(rating), done |-> done]
    ELSE NoSolo
SoloAfter(p, done) ==
    IF Idle(p) THEN NoSolo
    ELSE IF solo.p = p THEN [solo EXCEPT !.done = done]
    ELSE solo

\* the handler returns r and the process is free again
Answer(p, r) == /\ pc' = [pc EXCEPT ![p] = "idle"]
                /\ loc' = [loc EXCEPT ![p] = NoLoc]
                /\ resp' = r

\* the handler moves on to its next store call
Move(p, label, l) == /\ pc' = [pc EXCEPT ![p] = label]
                     /\ loc' = [loc EXCEPT ![p] = l]
                     /\ UNCHANGED resp

\* a request ends
Return(p, r) == Answer(p, r) /\ solo' = SoloAfter(p, TRUE)

Fail(p, o, e) == Return(p, [NoResp EXCEPT !.op = o, !.err = e])

Goto(p, label, l) == Move(p, label, l) /\ solo' = SoloAfter(p, FALSE)

\* the same three for the first step of a roulette request asking rq
FirstReturn(p, rq, r) == Answer(p, r) /\ solo' = SoloBegin(p, rq, TRUE)

FirstFail(p, rq, o, e) ==
    FirstReturn(p, rq, [NoResp EXCEPT !.op = o, !.err = e])

FirstGoto(p, rq, label, l) ==
    Move(p, label, l) /\ solo' = SoloBegin(p, rq, FALSE)

\* a request arrives at a free process
Begin(p) == /\ Idle(p)
            /\ calls < MaxCalls
            /\ calls' = calls + 1

\* the state at time t with the bets rows given, room for n bets, and r in
\* the place of the last response
InitFor(t, rows, n, r) ==
    /\ now = t
    /\ pc = [p \in Procs |-> "idle"]
    /\ loc = [p \in Procs |-> NoLoc]
    /\ calls = 0
    /\ preauth_token = NoToken
    /\ roulette = NoRoulette
    /\ users = FALSE
    /\ got_prizes = <<>>
    /\ rating = <<>>
    /\ resp = r
    /\ spinObs = [k \in 0..StartupMaxSpins |-> 0]
    /\ bets = rows
    /\ sched = [b \in 1..n |-> NoTimer]
    /\ closeWrites = [b \in 1..n |-> 0]
    /\ claimOk = [b \in 1..n |-> 0]
    /\ reconSnap = NoSnap
    /\ rerun = 0
    /\ user_achievements = [a \in DOMAIN AchievementCatalog |-> NoUserAchievement]
    /\ achOk = [a \in AchievementIDs |-> 0]
    /\ solo = NoSolo
    /\ winCalls = 0
    /\ user_events = [ev \in PrizeEvents |-> NoUserEvent]
    /\ takeOk = 0
    /\ timers = {}
    /\ taskLog = [b \in 1..n |-> NoTaskLog]
    /\ shut = SchedulerUp

InitWith(t, rows, n) == InitFor(t, rows, n, NoResp)

InitAt(t) == InitWith(t, <<>>, MaxBets)

Init == InitAt(StartTime)

Tick ==
    /\ now < MaxTime
    /\ now' = now + 1
    /\ UNCHANGED <<ledgerVars, achVars, betVars, pc, loc, calls,
                   preauth_token, roulette, users,
                   got_prizes, rating, resp, spinObs, solo>>


(***************************************************************************)
(* RouletteService.Spin                                                    *)
(***************************************************************************)
\* how a request names its token: X-Preauth-Token alone or with the
\* session headers, the session headers alone, or nothing
Addressing == {"token", "token+session", "session", "none"}
ByToken(mode) == mode \in {"token", "token+session"}
HasSession(mode) == mode \in {"token+session", "session"}
NoAddress == "preauth_token is required, or X-SESSION-ID and IP address must be provided"
RouletteIDs == {0, 1, 2}

\* what a roulette request asks: the operation, how it names the token, the
\* roulette_id of its body, whether it carries an Authorization header, and
\* the user of a link request
Request(op, mode, rid, auth, user) ==
    [op |-> op, mode |-> mode, rid |-> rid, auth |-> auth, user |-> user]

\* ValidatePreauthToken: the row must exist and must not be used.  The
\* expiry the service sets is ten years ahead, so it never passes here.
ValidatePreauthToken(tok) ==
    IF ~tok.exists THEN "preauth token not found"
    ELSE IF tok.is_used THEN "preauth token already used"
    ELSE ""

Unauthorized == "authorization is required for event roulette"
NoPrizes == "no prize values configured for event"

\* the same checks without the one on the Authorization header: what Spin
\* would do if it admitted event spins unauthenticated
ConfigChecksNoAuth(config, rid, auth) ==
    IF ~config.is_active THEN "roulette config not found or inactive"
    ELSE IF rid # 0 /\ rid # config.id
        THEN "invalid roulette_id for provided preauth_token"
    ELSE ""

\* the checks between resolving the token and reading the roulette row
ConfigChecks(config, rid, auth) ==
    IF ~config.is_active THEN "roulette config not found or inactive"
    ELSE IF rid # 0 /\ rid # config.id
        THEN "invalid roulette_id for provided preauth_token"
    ELSE IF config.type = "during_event" /\ ~auth
        THEN Unauthorized
    ELSE ""

\* Strings are sequences of characters.  The session ids and the addresses
\* clients send; an address may hold colons, as those of IPv6 do
Sessions == {<<"a">>, <<"b">>, <<"a", ":">>}
IPs == {<<"1">>, <<"2">>, <<":", "1">>}
CharCode(c) ==
    CASE c = "a" -> 97 [] c = "b" -> 98 [] c = "1" -> 49 [] c = "2" -> 50
      [] c = ":" -> 58

\* the digest of sha256.Sum256: 32 bytes, each a function of the whole
\* input.  The mixing stands for that of SHA-256, which is not computed.
DigestSize == 32
RECURSIVE Mix(_, _, _)
Mix(data, n, i) ==
    IF n = 0 THEN Len(data)
    ELSE (Mix(data, n - 1, i) * 31 + CharCode(data[n]) * (n + i)) % 256
Sum256(data) == [i \in 1..DigestSize |-> Mix(data, Len(data), i)]

\* hex.EncodeToString: two digits of "0123456789abcdef" for each byte
hextable == <<"0", "1", "2", "3", "4", "5", "6", "7", "8", "9",
              "a", "b", "c", "d", "e", "f">>
EncodeToString(src) ==
    [j \in 1..(2 * Len(src)) |->
        IF j % 2 = 1 THEN hextable[(src[(j + 1) \div 2] \div 16) + 1]
        ELSE hextable[(src[j \div 2] % 16) + 1]]

\* fmt.Sprintf("%s:%s", sessionID, ipAddress), hashed and hex-encoded
generateTokenFromSessionAndIP(sessionID, ipAddress) ==
    EncodeToString(Sum256(sessionID \o <<":">> \o ipAddress))

\* a derivation that puts the address first
generateTokenFromIPAndSession(sessionID, ipAddress) ==
    EncodeToString(Sum256(ipAddress \o <<":">> \o sessionID))

\* the token each of the three handlers derives when the request names
\* its token by session and address
GetPreauthTokenToken(sessionID, ipAddress) ==
    generateTokenFromSessionAndIP(sessionID, ipAddress)
SpinToken(sessionID, ipAddress) ==
    generateTokenFromSessionAndIP(sessionID, ipAddress)
TakePrizeToken(sessionID, ipAddress) ==
    generateTokenFromSessionAndIP(sessionID, ipAddress)

\* the client of the roulette runs
ClientSession == <<"a">>
ClientIP == <<"1">>

\* the preauth token row Spin, TakePrize and GetPreauthToken insert
NewPreauthToken ==
    [exists |-> TRUE, user |-> NoUser, config |-> RouletteConfig.id,
     is_used |-> FALSE,
     token |-> generateTokenFromSessionAndIP(ClientSession, ClientIP)]

\* SELECT ... FROM roulette_preauth_token WHERE token = $1
GetPreauthToken(token) ==
    IF preauth_token.exists /\ preauth_token.token = token
    THEN preauth_token ELSE NoToken

\* the first steps of GetPreauthToken, Spin and TakePrize for the client
\* whose session and address the run began with: the token is derived, the
\* row read, and a missing row inserted.  The response tells the token and
\* whether its row was found.
ResolveFor(p, o, token) ==
    LET found == GetPreauthToken(token).exists
    IN  /\ preauth_token' =
              IF found \/ preauth_token.exists THEN preauth_token
              ELSE [NewPreauthToken EXCEPT !.token = token]
        /\ Return(p, [resp EXCEPT !.op = o, !.ok = TRUE, !.token = found,
                                  !.list = token])

GetPreauthTokenResolve(p) ==
    /\ Begin(p)
    /\ ResolveFor(p, "get_token", GetPreauthTokenToken(resp.session, resp.ip))
    /\ UNCHANGED <<ledgerVars, achVars, betVars, now, roulette, users,
                   got_prizes, rating, spinObs>>

SpinTokenResolve(p) ==
    /\ Begin(p)
    /\ ResolveFor(p, "spin", SpinToken(resp.session, resp.ip))
    /\ UNCHANGED <<ledgerVars, achVars, betVars, now, roulette, users,
                   got_prizes, rating, spinObs>>

TakePrizeTokenResolve(p) ==
    /\ Begin(p)
    /\ ResolveFor(p, "take", TakePrizeToken(resp.session, resp.ip))
    /\ UNCHANGED <<ledgerVars, achVars, betVars, now, roulette, users,
                   got_prizes, rating, spinObs>>

TokenInit ==
    \E s \in Sessions, ip \in IPs :
        InitFor(StartTime, <<>>, MaxBets,
                [NoResp EXCEPT !.session = s, !.ip = ip])

TokenNext ==
    \/ \E p \in Procs : GetPreauthTokenResolve(p)
    \/ \E p \in Procs : SpinTokenResolve(p)
    \/ \E p \in Procs : TakePrizeTokenResolve(p)

SpecToken == TokenInit /\ [][TokenNext]_vars

\* first store call of Spin: ValidatePreauthToken or GetPreauthToken
SpinResolve(p, mode, rid, auth) ==
    /\ Begin(p)
    /\ LET verr == ValidatePreauthToken(preauth_token)
           cerr == ConfigChecks(Config, rid, auth)
           rq == Request("spin", mode, rid, auth, NoUser)
       IN  IF mode = "none"
             THEN FirstFail(p, rq, "spin", NoAddress)
           ELSE IF ByToken(mode) /\ verr # ""
             THEN FirstFail(p, rq, "spin", verr)
           ELSE IF ~ByToken(mode) /\ ~preauth_token.exists
             THEN FirstGoto(p, rq, "sp_create",
                            [op |-> "spin", rid |-> rid, auth |-> auth])
           ELSE IF cerr # ""
             THEN FirstFail(p, rq, "spin", cerr)
           ELSE FirstGoto(p, rq, "sp_read", [op |-> "spin"])
    /\ UNCHANGED <<ledgerVars, achVars, betVars, now, preauth_token,
                   roulette, users, got_prizes, rating,
                   spinObs>>

\* CreatePreauthToken: the INSERT fails on the UNIQUE(token) constraint
SpinCreateToken(p) ==
    /\ pc[p] = "sp_create"
    /\ IF preauth_token.exists
         THEN /\ Fail(p, "spin", "failed to create preauth token")
              /\ UNCHANGED preauth_token
         ELSE /\ preauth_token' = NewPreauthToken
              /\ LET cerr == ConfigChecks(RouletteConfig, loc[p].rid, loc[p].auth)
                 IN  IF cerr # "" THEN Fail(p, "spin", cerr)
                     ELSE Goto(p, "sp_read", [op |-> "spin"])
    /\ UNCHANGED <<ledgerVars, achVars, betVars, now, calls, roulette, users,
                   got_prizes, rating, spinObs>>

\* GetRouletteByPreauthToken and the two checks on what it returned
SpinRead(p) ==
    /\ pc[p] = "sp_read"
    /\ IF roulette.exists /\ roulette.prize_taken
         THEN Fail(p, "spin", "prize already taken, no more spins available")
       ELSE IF roulette.exists /\ roulette.spin_number >= Config.max_spins
         THEN Fail(p, "spin", "maximum spins reached")
       ELSE Goto(p, "sp_write", [op |-> "spin", rl |-> roulette])
    /\ UNCHANGED <<ledgerVars, achVars, betVars, now, calls, preauth_token,
                   roulette, users, got_prizes,
                   rating, spinObs>>

\* the row CreateRoulette inserts for a first spin
FirstSpinRow == [NoRoulette EXCEPT !.exists = TRUE, !.spin_number = 1]

\* the increment of the spin number Spin applies to the row it read
NextSpinNumber(n) == n + 1

\* CreateRoulette (UNIQUE preauth_token_id) or UpdateRoulette (every column
\* of the row is overwritten with the handler's copy, WHERE id = $1)
SpinWrite(p) ==
    /\ pc[p] = "sp_write"
    /\ IF ~loc[p].rl.exists
         THEN IF roulette.exists
                THEN /\ Fail(p, "spin", "failed to create roulette")
                     /\ UNCHANGED roulette
                ELSE /\ roulette' = FirstSpinRow
                     /\ Goto(p, "sp_mark",
                             [op |-> "spin", rl |-> FirstSpinRow, observed |-> 0])
         ELSE LET r == [loc[p].rl EXCEPT
                            !.spin_number = NextSpinNumber(loc[p].rl.spin_number)]
              IN  /\ roulette' = r
                  /\ Goto(p, "sp_mark",
                          [op |-> "spin", rl |-> r,
                           observed |-> loc[p].rl.spin_number])
    /\ UNCHANGED <<ledgerVars, achVars, betVars, now, calls, preauth_token,
                   users, got_prizes, rating, spinObs>>

\* MarkPreauthTokenAsUsed
SpinMark(p) ==
    /\ pc[p] = "sp_mark"
    /\ preauth_token' = [preauth_token EXCEPT !.is_used = TRUE]
    /\ Goto(p, "sp_prize", loc[p])
    /\ UNCHANGED <<ledgerVars, achVars, betVars, now, calls, roulette, users,
                   got_prizes, rating, spinObs>>

\* spinsLeft of the response
RemainingSpins(config, r) ==
    IF config.max_spins - r.spin_number < 0 THEN 0
    ELSE config.max_spins - r.spin_number

\* GetPrizeValuesByEventID, the random choice, and the second UpdateRoulette
SpinPrize(p) ==
    /\ pc[p] = "sp_prize"
    /\ IF PrizeValuesByEventID(Config.event_id) = {}
         THEN /\ Fail(p, "spin", NoPrizes)
              /\ UNCHANGED <<roulette, spinObs>>
         ELSE \E pv \in PrizeValuesByEventID(Config.event_id) :
                LET r == [loc[p].rl EXCEPT
                              !.prize = Digits(PrizeValues[pv]),
                              !.pv_id = pv]
                IN  /\ roulette' = r
                    /\ spinObs' = [spinObs EXCEPT ![loc[p].observed] = @ + 1]
                    /\ Return(p, [NoResp EXCEPT
                                     !.op = "spin", !.ok = TRUE,
                                     !.spinsLeft = RemainingSpins(Config, r),
                                     !.prize = r.prize])
    /\ UNCHANGED <<ledgerVars, achVars, betVars, now, calls, preauth_token,
                   users, got_prizes, rating>>


(***************************************************************************)
(* RouletteService.TakePrize                                               *)
(***************************************************************************)
\* first store calls of TakePrize: the token is validated or looked up, and
\* CreateOrUpdateUserBySession upserts the session's users row.  That row
\* only ever goes from absent to present, so the upsert is taken together
\* with the token read.
TakeResolve(p, mode, rid, auth) ==
    /\ Begin(p)
    /\ LET verr == ValidatePreauthToken(preauth_token)
           cerr == ConfigChecks(Config, rid, auth)
           l == [op |-> "take", rid |-> rid, auth |-> auth,
                 user |-> preauth_token.user, session |-> HasSession(mode)]
           rq == Request("take", mode, rid, auth, NoUser)
       IN  IF mode = "none"
             THEN FirstFail(p, rq, "take", NoAddress) /\ UNCHANGED users
           ELSE IF ByToken(mode) /\ verr # ""
             THEN FirstFail(p, rq, "take", verr) /\ UNCHANGED users
           ELSE IF ~ByToken(mode) /\ ~preauth_token.exists
             THEN FirstGoto(p, rq, "tp_create", l) /\ UNCHANGED users
           ELSE /\ users' = (users \/ HasSession(mode))
                /\ IF cerr # "" THEN FirstFail(p, rq, "take", cerr)
                   ELSE FirstGoto(p, rq, "tp_read", l)
    /\ UNCHANGED <<ledgerVars, achVars, betVars, now, preauth_token,
                   roulette, got_prizes, rating, spinObs>>

\* CreatePreauthToken in TakePrize, then the users upsert
TakeCreateToken(p) ==
    /\ pc[p] = "tp_create"
    /\ IF preauth_token.exists
         THEN /\ Fail(p, "take", "failed to create preauth token")
              /\ UNCHANGED <<preauth_token, users>>
         ELSE /\ preauth_token' = NewPreauthToken
              /\ users' = TRUE
              /\ LET cerr == ConfigChecks(RouletteConfig, loc[p].rid, loc[p].auth)
                 IN  IF cerr # "" THEN Fail(p, "take", cerr)
                     ELSE Goto(p, "tp_read", loc[p])
    /\ UNCHANGED <<ledgerVars, achVars, betVars, now, calls, roulette,
                   got_prizes, rating, spinObs>>

\* the prize string TakePrize awards, from the roulette row it read
PrizeOfRoulette(r) ==
    IF r.prize # NullStr THEN r.prize
    ELSE IF r.pv_id # 0 THEN Digits(PrizeValues[r.pv_id])
    ELSE DefaultPrize

\* the user the prize goes to: the token's user, else the session's user
PrizeUser(l) ==
    IF l.user # NoUser THEN l.user
    ELSE IF l.session /\ users THEN SessionUser
    ELSE NoUser

\* GetRouletteByPreauthToken, the checks on the row, GetUserBySessionID
TakeRead(p) ==
    /\ pc[p] = "tp_read"
    /\ LET unreg == loc[p].user = NoUser
       IN  IF ~roulette.exists
             THEN Fail(p, "take", "roulette not found, must spin first")
           ELSE IF roulette.prize_taken /\ roulette.prize # NullStr
             THEN Return(p, [NoResp EXCEPT !.op = "take", !.ok = TRUE,
                                !.err = "Prize already taken",
                                !.prize = roulette.prize, !.token = unreg])
           ELSE IF roulette.prize_taken
             THEN Fail(p, "take", "prize already taken but no prize found")
           ELSE IF roulette.spin_number < Config.max_spins
             THEN Fail(p, "take", "must complete all spins before taking prize")
           ELSE IF PrizeUser(loc[p]) = NoUser
             THEN Fail(p, "take", "user_uuid is required to take prize")
           ELSE Goto(p, "tp_prize",
                     [op |-> "take", prize |-> PrizeOfRoulette(roulette),
                      user |-> PrizeUser(loc[p]), unreg |-> unreg])
    /\ UNCHANGED <<ledgerVars, achVars, betVars, now, calls, preauth_token,
                   roulette, users, got_prizes,
                   rating, spinObs>>

\* a got_prizes row
PrizeRow(id, user, source, value, pvid, at) ==
    [id |-> id, user |-> user, source |-> source, prize_value |-> value,
     prize_value_id |-> pvid, awarded_at |-> at]

\* PrizeRepository.CreatePrize: INSERT INTO got_prizes ... RETURNING id
CreatePrize(user, source, value, pvid) ==
    Append(got_prizes,
           PrizeRow(Len(got_prizes) + 1, user, source, value, pvid, now))

TakeCreatePrize(p) ==
    /\ pc[p] = "tp_prize"
    /\ got_prizes' = CreatePrize(loc[p].user, "roulette", loc[p].prize, 0)
    /\ Goto(p, "tp_update", loc[p])
    /\ UNCHANGED <<ledgerVars, achVars, betVars, now, calls, preauth_token,
                   roulette, users, rating, spinObs>>

\* the INSERT returning an error: a store failure, or the NOT NULL that the
\* got_prizes migration puts on prize_value_id, which TakePrize leaves nil
TakeCreatePrizeFail(p) ==
    /\ pc[p] = "tp_prize"
    /\ Fail(p, "take", "failed to create prize record")
    /\ UNCHANGED <<ledgerVars, achVars, betVars, now, calls, preauth_token,
                   roulette, users, got_prizes, rating, spinObs>>

\* RouletteRepository.TakePrize: UPDATE roulette SET prize, prize_taken = TRUE,
\* prize_taken_at WHERE id = $1
RepoTakePrize(r, prize) ==
    [r EXCEPT !.prize = prize, !.prize_taken = TRUE, !.prize_taken_at = now]

TakeUpdate(p) ==
    /\ pc[p] = "tp_update"
    /\ roulette' = RepoTakePrize(roulette, loc[p].prize)
    /\ Goto(p, "tp_mark", loc[p])
    /\ UNCHANGED <<ledgerVars, achVars, betVars, now, calls, preauth_token,
                   users, got_prizes, rating, spinObs>>

\* the same UPDATE returning an error (connection lost, statement timeout):
\* TakePrize returns "failed to take prize" after CreatePrize has committed
TakeUpdateFail(p) ==
    /\ pc[p] = "tp_update"
    /\ Fail(p, "take", "failed to take prize")
    /\ UNCHANGED <<ledgerVars, achVars, betVars, now, calls, preauth_token,
                   roulette, users, got_prizes,
                   rating, spinObs>>

\* MarkPreauthTokenAsUsed, whose error is ignored, and the response
TakeMark(p) ==
    /\ pc[p] = "tp_mark"
    /\ preauth_token' = [preauth_token EXCEPT !.is_used = TRUE]
    /\ Return(p, [NoResp EXCEPT !.op = "take", !.ok = TRUE,
                     !.err = "Prize taken successfully",
                     !.prize = loc[p].prize, !.token = loc[p].unreg])
    /\ UNCHANGED <<ledgerVars, achVars, betVars, now, calls, roulette, users,
                   got_prizes, rating, spinObs>>

(***************************************************************************)
(* RouletteService.GetPreauthToken and LinkPreauthTokenToUser              *)
(***************************************************************************)
TokenResp == [NoResp EXCEPT !.op = "get_token", !.ok = TRUE, !.token = TRUE]

\* GetPreauthToken: look the derived token up, return it when it is there
GetTokenRead(p) ==
    /\ Begin(p)
    /\ LET rq == Request("get_token", "session", 0, FALSE, NoUser)
       IN  IF preauth_token.exists
             THEN FirstReturn(p, rq, TokenResp)
           ELSE IF ~RouletteConfig.is_active
             THEN FirstFail(p, rq, "get_token",
                            "roulette config not found or inactive")
           ELSE FirstGoto(p, rq, "gt_create", [op |-> "get_token"])
    /\ UNCHANGED <<ledgerVars, achVars, betVars, now, preauth_token,
                   roulette, users, got_prizes, rating, spinObs>>

\* GetPreauthToken: CreatePreauthToken, whose INSERT fails on UNIQUE(token)
GetTokenCreate(p) ==
    /\ pc[p] = "gt_create"
    /\ IF preauth_token.exists
         THEN /\ Fail(p, "get_token", "failed to create preauth token")
              /\ UNCHANGED preauth_token
         ELSE /\ preauth_token' = NewPreauthToken
              /\ Return(p, TokenResp)
    /\ UNCHANGED <<ledgerVars, achVars, betVars, now, calls, roulette, users,
                   got_prizes, rating, spinObs>>

\* RouletteService.CreatePreauthToken, behind POST /roulette/preauth-token:
\* the client names the roulette type and event of the token it registers
CreatePreauthToken(p, type, event, user) ==
    /\ Begin(p)
    /\ LET rq == Request("create_token", "token", 0, FALSE, user)
           config == GetRouletteConfigByType(type, event)
       IN  IF ~config.is_active
             THEN /\ FirstFail(p, rq, "create_token",
                               "roulette config not found or inactive")
                  /\ UNCHANGED preauth_token
           ELSE IF preauth_token.exists
             THEN /\ FirstFail(p, rq, "create_token",
                               "failed to create preauth token")
                  /\ UNCHANGED preauth_token
           ELSE /\ preauth_token' = [NewPreauthToken EXCEPT !.user = user,
                                                           !.config = config.id]
                /\ FirstReturn(p, rq, [NoResp EXCEPT !.op = "create_token",
                                                      !.ok = TRUE])
    /\ UNCHANGED <<ledgerVars, achVars, betVars, now, roulette, users,
                   got_prizes, rating, spinObs>>

\* UPDATE roulette_preauth_token SET user_uuid = $1 WHERE token = $2
UpdatePreauthTokenUserUUID(tok, user) == [tok EXCEPT !.user = user]

\* LinkPreauthTokenToUser: that one UPDATE; no row affected is an error
LinkPreauthTokenToUser(p, user) ==
    /\ Begin(p)
    /\ LET rq == Request("link", "token", 0, TRUE, user)
       IN  IF ~preauth_token.exists
             THEN /\ FirstFail(p, rq, "link", "preauth token not found")
                  /\ UNCHANGED preauth_token
             ELSE /\ preauth_token' =
                         UpdatePreauthTokenUserUUID(preauth_token, user)
                  /\ FirstReturn(p, rq, [NoResp EXCEPT !.op = "link",
                                                        !.ok = TRUE])
    /\ UNCHANGED <<ledgerVars, achVars, betVars, now, roulette, users,
                   got_prizes, rating, spinObs>>

RouletteNext ==
    \/ \E p \in Procs, mode \in Addressing, rid \in RouletteIDs, auth \in BOOLEAN :
          SpinResolve(p, mode, rid, auth)
    \/ \E p \in Procs : SpinCreateToken(p)
    \/ \E p \in Procs : SpinRead(p)
    \/ \E p \in Procs : SpinWrite(p)
    \/ \E p \in Procs : SpinMark(p)
    \/ \E p \in Procs : SpinPrize(p)
    \/ \E p \in Procs, mode \in Addressing, rid \in RouletteIDs, auth \in BOOLEAN :
          TakeResolve(p, mode, rid, auth)
    \/ \E p \in Procs : TakeCreateToken(p)
    \/ \E p \in Procs : TakeRead(p)
    \/ \E p \in Procs : TakeCreatePrize(p)
    \/ \E p \in Procs : TakeCreatePrizeFail(p)
    \/ \E p \in Procs : TakeUpdate(p)
    \/ \E p \in Procs : TakeUpdateFail(p)
    \/ \E p \in Procs : TakeMark(p)
    \/ \E p \in Procs : GetTokenRead(p)
    \/ \E p \in Procs : GetTokenCreate(p)
    \/ \E p \in Procs, user \in Users : LinkPreauthTokenToUser(p, user)

SpecRoulette == Init /\ [][RouletteNext]_vars

\* the roulette of an event: tokens registered by the client for either
\* config, and the spins on them
RouletteTypes == {"on_start", "during_event"}
EventIDs == {"startup", "e2"}

EventNext ==
    \/ \E p \in Procs, type \in RouletteTypes, event \in EventIDs,
          user \in {NoUser} \cup Users :
          CreatePreauthToken(p, type, event, user)
    \/ \E p \in Procs, mode \in Addressing, rid \in RouletteIDs, auth \in BOOLEAN :
          SpinResolve(p, mode, rid, auth)
    \/ \E p \in Procs : SpinCreateToken(p)
    \/ \E p \in Procs : SpinRead(p)
    \/ \E p \in Procs : SpinWrite(p)
    \/ \E p \in Procs : SpinMark(p)
    \/ \E p \in Procs : SpinPrize(p)

SpecEvent == Init /\ [][EventNext]_vars

\* tokens registered for the roulette of the event without prize values,
\* and spins on them or on the session's own token
NoPrizesNext ==
    \/ \E p \in Procs, user \in {NoUser} \cup Users :
          CreatePreauthToken(p, "during_event", EmptyEventRouletteConfig.event_id,
                             user)
    \/ \E p \in Procs, mode \in Addressing, rid \in {0, EmptyEventConfigID},
          auth \in BOOLEAN :
          SpinResolve(p, mode, rid, auth)
    \/ \E p \in Procs : SpinCreateToken(p)
    \/ \E p \in Procs : SpinRead(p)
    \/ \E p \in Procs : SpinWrite(p)
    \/ \E p \in Procs : SpinMark(p)
    \/ \E p \in Procs : SpinPrize(p)

SpecNoPrizes == Init /\ [][NoPrizesNext]_vars


(***************************************************************************)
(* Claims about the roulette engine                                        *)
(***************************************************************************)
SuccessfulSpins ==
    spinObs[0] + spinObs[1] + spinObs[2] + spinObs[3]

\* C1: for the preauth token, the number of spin calls that returned success
\* never exceeds max_spins of the token's roulette config.
C1_SpinsWithinMax == SuccessfulSpins <= RouletteConfig.max_spins

\* C2: no two successful spins observed the same spin_number (spins on one
\* token serialize, at most one succeeds per spin count).
C2_SpinsSerialize == \A k \in DOMAIN spinObs : spinObs[k] <= 1

RoulettePrizeRows == {i \in DOMAIN got_prizes : got_prizes[i].source = "roulette"}

TakeInFlight ==
    \E p \in Procs : pc[p] \in {"tp_prize", "tp_update", "tp_mark"}

PrizeLedgerRows ==
    {i \in DOMAIN rating : rating[i].got_prize_id \in RoulettePrizeRows}

SoloDone(op) == solo.p # "none" /\ solo.done /\ solo.rq.op = op

\* C12: a spin that passes the token of get_preauth_token explicitly, with
\* roulette_id 1, succeeds with spinsLeft 2, 1, 0 as the first, second and
\* third spin of the session, and fails with "maximum spins reached" as the
\* fourth: the k-th of such successive calls finds spin_number = k - 1.
C12_SpinScenario ==
    (/\ SoloDone("spin")
     /\ solo.rq.mode = "token" /\ solo.rq.rid = StartupConfigID
     /\ solo.tok.exists /\ solo.tok.user = NoUser
     /\ ~solo.rl.prize_taken)
    => IF solo.rl.spin_number < RouletteConfig.max_spins
       THEN /\ resp.op = "spin" /\ resp.ok
            /\ resp.spinsLeft =
                   RouletteConfig.max_spins - (solo.rl.spin_number + 1)
       ELSE /\ resp.op = "spin" /\ ~resp.ok
            /\ resp.err = "maximum spins reached"

\* C13: after max_spins successful spins on an unlinked token, a take_prize
\* that passes that token explicitly (with the session headers, so that a
\* user can be found) returns success, the prize stored by the last spin,
\* and the preauth_token.
C13_TakePrizeByToken ==
    (/\ SoloDone("take")
     /\ solo.rq.mode = "token+session" /\ solo.rq.rid = StartupConfigID
     /\ solo.tok.exists /\ solo.tok.user = NoUser
     /\ solo.rl.exists /\ ~solo.rl.prize_taken
     /\ solo.rl.spin_number = RouletteConfig.max_spins
     /\ solo.rl.prize # NullStr)
    => /\ resp.op = "take" /\ resp.ok
       /\ resp.prize = solo.rl.prize
       /\ resp.token

SoloEventSpin ==
    /\ SoloDone("spin")
    /\ solo.tok.exists
    /\ GetRouletteConfigByID(solo.tok.config).type = "during_event"
    /\ solo.rq.mode # "none"
    /\ ByToken(solo.rq.mode) => ~solo.tok.is_used
    /\ solo.rq.rid \in {0, solo.tok.config}

\* C40: a spin that fails because the event of the token's config has no
\* prize values consumes nothing: the roulette row is as the spin found it
\* (none is created, spin_number is unchanged) and the token is not marked
\* used.
C40_NoPrizesConsumesNothing ==
    (SoloDone("spin") /\ resp.op = "spin" /\ resp.err = NoPrizes) =>
        /\ roulette = solo.rl
        /\ preauth_token.is_used = solo.tok.is_used

\* C19: a spin on a token of a during_event config without an Authorization
\* header fails with Unauthorized and changes nothing: no roulette row is
\* created, spin_number and is_used are as before.  With a header the spin
\* is admitted, and succeeds when the session has a spin left.
C19_EventSpinNeedsAuth ==
    SoloEventSpin =>
        IF ~solo.rq.auth
        THEN /\ resp.op = "spin" /\ ~resp.ok /\ resp.err = Unauthorized
             /\ preauth_token = solo.tok
             /\ roulette = solo.rl
             /\ Len(got_prizes) = solo.prizes
             /\ Len(rating) = solo.ledger
        ELSE /\ resp.op = "spin" /\ resp.err # Unauthorized
             /\ (\/ ~solo.rl.exists
                 \/ /\ ~solo.rl.prize_taken
                    /\ solo.rl.spin_number <
                          GetRouletteConfigByID(solo.tok.config).max_spins)
                => resp.ok /\ roulette.spin_number = solo.rl.spin_number + 1

\* an event spin without the header has been refused
C19_Refused == SoloEventSpin /\ ~solo.rq.auth /\ resp.err = Unauthorized


(***************************************************************************)
(* Bets: BetService.OpenBet, BetScheduler and BetService.GetBetStatus      *)
(***************************************************************************)
BetUser == "u1"
Sides == {"pump", "dump", "hold"}
Sums == {0, 1}
Timeframes == {0, 1}
OpenPrices == {0, 2}
TickerPrices == {1, 2, 3}
PriceError == 0
BetIDs == 1..MaxBets

\* the open times a client sends: the present, most of a second ago, or a
\* full second ago
OpenTimes == {now, now - (TicksPerSecond - 1), now - Seconds(1)}

ExpectedCloseTime(bet) == bet.open_time + Seconds(bet.timeframe)

\* BetService.OpenBet's validation of the request
OpenBetError(side, sum, timeframe, openPrice) ==
    IF side \notin {"pump", "dump"} THEN "side must be 'pump' or 'dump'"
    ELSE IF sum <= 0 THEN "sum must be greater than 0"
    ELSE IF timeframe <= 0 THEN "timeframe must be greater than 0"
    ELSE IF openPrice <= 0 THEN "openPrice must be greater than 0"
    ELSE ""

CreateBet(user, side, sum, timeframe, openPrice, openTime) ==
    Append(bets, [id |-> Len(bets) + 1, user |-> user, side |-> side,
                  sum |-> sum,
                  timeframe |-> timeframe, open_price |-> openPrice,
                  close_price |-> NullPrice, open_time |-> openTime,
                  close_time |-> NullTime, claimed |-> FALSE])

\* UPDATE bets SET close_price = $1, close_time = $2 WHERE id = $3
UpdateBetClosePrice(id, closePrice, closeTime) ==
    /\ bets' = [bets EXCEPT ![id].close_price = closePrice,
                            ![id].close_time = closeTime]
    /\ closeWrites' = [closeWrites EXCEPT ![id] = @ + 1]

\* ScheduleBetClosing with a close time in the future: the entry goes into
\* the timers map and the goroutine starts; under a scheduler context that
\* is already cancelled the goroutine returns at once
ScheduleTask(id, closeTime) ==
    /\ timers' = timers \cup {id}
    /\ taskLog' = [taskLog EXCEPT ![id].started = @ + 1, ![id].at = now,
                                  ![id].cancelled = shut.st # "up"]
    /\ sched' = [sched EXCEPT ![id] =
                    IF shut.st = "up"
                    THEN [NoTimer EXCEPT !.st = "waiting", !.closeAt = closeTime]
                    ELSE NoTimer]

\* OpenBet: validate, insert the row, then ScheduleBetClosing: close at
\* once when the close time is not in the future, else start the timer
OpenBet(p, side, sum, timeframe, openPrice, openTime) ==
    /\ Begin(p)
    /\ LET err == OpenBetError(side, sum, timeframe, openPrice)
           id == Len(bets) + 1
           closeTime == openTime + Seconds(timeframe)
       IN IF err # ""
          THEN Fail(p, "open", err) /\ UNCHANGED <<bets, sched, timers, taskLog>>
          ELSE /\ id <= MaxBets
               /\ bets' = CreateBet(BetUser, side, sum, timeframe, openPrice,
                                    openTime)
               /\ IF closeTime <= now
                  THEN /\ Goto(p, "ob_fetch", [op |-> "open", bet |-> id])
                       /\ taskLog' = [taskLog EXCEPT ![id].immediate = @ + 1,
                                                     ![id].at = now]
                       /\ UNCHANGED <<sched, timers>>
                  ELSE /\ ScheduleTask(id, closeTime)
                       /\ Return(p, [NoResp EXCEPT !.op = "open", !.ok = TRUE,
                                                   !.bet = id])
    /\ UNCHANGED <<ledgerVars, achVars, now, preauth_token, roulette, users,
                   got_prizes, rating,
                   spinObs, closeWrites, shut>>

\* closeBetImmediately, inside the request: GetPrice, closeTime := time.Now()
OpenFetch(p) ==
    /\ pc[p] = "ob_fetch"
    /\ \E price \in TickerPrices \cup {PriceError} :
          IF price = PriceError
          THEN Return(p, [NoResp EXCEPT !.op = "open", !.ok = TRUE,
                                        !.bet = loc[p].bet])
          ELSE Goto(p, "ob_write", [op |-> "open", bet |-> loc[p].bet,
                                    price |-> price, closeTime |-> now])
    /\ UNCHANGED <<ledgerVars, achVars, betVars, now, calls, preauth_token,
                   roulette, users,
                   got_prizes, rating, spinObs>>

OpenWrite(p) ==
    /\ pc[p] = "ob_write"
    /\ UpdateBetClosePrice(loc[p].bet, loc[p].price, loc[p].closeTime)
    /\ Return(p, [NoResp EXCEPT !.op = "open", !.ok = TRUE,
                                !.bet = loc[p].bet])
    /\ UNCHANGED <<ledgerVars, achVars, sched, schedVars, now, calls,
                   preauth_token,
                   roulette, users,
                   got_prizes, rating, spinObs>>

\* a timer that counts as fired whenever the task waits
TimerDueAtOnce(b) == sched[b].st = "waiting"

\* the timer of a waiting task has fired: time.NewTimer(time.Until(closeTime))
TimerDue(b) == sched[b].st = "waiting" /\ now >= sched[b].closeAt

\* the scheduler's goroutine: the timer fires, closeBet fetches the price
\* and reads the clock; a fetch error ends the goroutine
scheduleCloseBet(b) ==
    /\ TimerDue(b)
    /\ \E price \in TickerPrices \cup {PriceError} :
          /\ sched' = [sched EXCEPT ![b] =
                         IF price = PriceError THEN NoTimer
                         ELSE [@ EXCEPT !.st = "fetched", !.price = price,
                                        !.closeTime = now]]
          /\ timers' = IF price = PriceError THEN timers \ {b} ELSE timers
          /\ taskLog' = [taskLog EXCEPT
                            ![b].settles = @ + 1,
                            ![b].failed = IF price = PriceError THEN @ + 1
                                          ELSE @]
    /\ shut' = [shut EXCEPT !.spent[b] = 0]
    /\ UNCHANGED <<ledgerVars, achVars, bets, closeWrites, now, pc, loc,
                   calls, resp, solo,
                   preauth_token, roulette, users, got_prizes, rating, spinObs>>

\* closeBet's write, then the timer leaves the map
closeBet(b) ==
    /\ sched[b].st = "fetched"
    /\ UpdateBetClosePrice(b, sched[b].price, sched[b].closeTime)
    /\ sched' = [sched EXCEPT ![b] = NoTimer]
    /\ timers' = timers \ {b}
    /\ shut' = [shut EXCEPT !.spent[b] = 0]
    /\ UNCHANGED <<ledgerVars, achVars, taskLog, now, pc, loc, calls, resp,
                   solo,
                   preauth_token, roulette, users,
                   got_prizes, rating, spinObs>>

StatusResp(bet, closePrice) ==
    [NoResp EXCEPT !.op = "status", !.ok = TRUE, !.bet = bet,
                   !.close_price = closePrice]

\* a GetBetStatus that returns the stored row and never settles
StatusReadOnly(p, b, user) ==
    /\ Begin(p)
    /\ IF b > Len(bets) \/ bets[b].user # user
       THEN Fail(p, "status", "bet not found")
       ELSE Return(p, StatusResp(b, bets[b].close_price))
    /\ UNCHANGED <<ledgerVars, achVars, betVars, now, preauth_token,
                   roulette, users, got_prizes,
                   rating, spinObs>>

\* GetBetStatus: read the row; settle when the timeframe has passed and
\* the row read has no close price
StatusRead(p, b, user) ==
    /\ Begin(p)
    /\ IF b > Len(bets) \/ bets[b].user # user
       THEN Fail(p, "status", "bet not found")
       ELSE IF now > ExpectedCloseTime(bets[b]) /\ bets[b].close_price = NullPrice
       THEN Goto(p, "gs_fetch", [op |-> "status", bet |-> b, row |-> bets[b]])
       ELSE Return(p, StatusResp(b, bets[b].close_price))
    /\ UNCHANGED <<ledgerVars, achVars, betVars, now, preauth_token,
                   roulette, users, got_prizes,
                   rating, spinObs>>

StatusFetch(p) ==
    /\ pc[p] = "gs_fetch"
    /\ \E price \in TickerPrices \cup {PriceError} :
          IF price = PriceError
          THEN Return(p, StatusResp(loc[p].bet, loc[p].row.close_price))
          ELSE Goto(p, "gs_write", [loc[p] EXCEPT !.row.close_price = price])
    /\ UNCHANGED <<ledgerVars, achVars, betVars, now, calls, preauth_token,
                   roulette, users,
                   got_prizes, rating, spinObs>>

StatusWrite(p) ==
    /\ pc[p] = "gs_write"
    /\ UpdateBetClosePrice(loc[p].bet, loc[p].row.close_price,
                           ExpectedCloseTime(loc[p].row))
    /\ Return(p, StatusResp(loc[p].bet, loc[p].row.close_price))
    /\ UNCHANGED <<ledgerVars, achVars, sched, schedVars, now, calls,
                   preauth_token,
                   roulette, users,
                   got_prizes, rating, spinObs>>

\* closeBet when UpdateBetClosePrice returns an error: the error is logged,
\* nothing is written and the timer leaves the map
closeBetFail(b) ==
    /\ sched[b].st = "fetched"
    /\ sched' = [sched EXCEPT ![b] = NoTimer]
    /\ timers' = timers \ {b}
    /\ shut' = [shut EXCEPT !.spent[b] = 0]
    /\ taskLog' = [taskLog EXCEPT ![b].failed = @ + 1]
    /\ UNCHANGED <<ledgerVars, achVars, bets, closeWrites, now, pc,
                   loc, calls, resp, solo,
                   preauth_token, roulette, users,
                   got_prizes, rating, spinObs>>

\* the tasks a cancel signal ends: those in ended return from the select
\* without settling; a task whose timer is due may already have taken the
\* timer branch, so only the tasks not yet due are sure to be in ended
TasksEnded(ended) ==
    /\ sched' = [b \in BetIDs |-> IF b \in ended THEN NoTimer ELSE sched[b]]
    /\ taskLog' = [b \in BetIDs |->
                      IF b \in ended THEN [taskLog[b] EXCEPT !.cancelled = TRUE]
                      ELSE taskLog[b]]

\* a cancel that deletes the entry without calling the cancel function
CancelDeleteOnly(b) ==
    /\ b \in timers
    /\ timers' = timers \ {b}
    /\ taskLog' = [taskLog EXCEPT ![b].cancels = @ + 1]
    /\ UNCHANGED <<ledgerVars, achVars, bets, sched, closeWrites, shut, now,
                   pc, loc, calls, resp, solo,
                   preauth_token, roulette, users,
                   got_prizes, rating, spinObs>>

\* CancelBetClosing: with an entry in the map, call its cancel function and
\* delete the entry; closeBet runs under context.Background and is not
\* interrupted
CancelBetClosing(b) ==
    /\ b \in timers
    /\ timers' = timers \ {b}
    /\ \/ /\ sched[b].st = "waiting"
          /\ sched' = [sched EXCEPT ![b] = NoTimer]
          /\ taskLog' = [taskLog EXCEPT ![b].cancels = @ + 1,
                                        ![b].cancelled = TRUE]
       \/ /\ sched[b].st # "waiting" \/ TimerDue(b)
          /\ taskLog' = [taskLog EXCEPT ![b].cancels = @ + 1]
          /\ UNCHANGED sched
    /\ UNCHANGED <<ledgerVars, achVars, bets, closeWrites, shut, now, pc, loc,
                   calls, resp, solo,
                   preauth_token, roulette, users,
                   got_prizes, rating, spinObs>>

\* Shutdown: s.cancel() ends every task still waiting in its select, then
\* s.wg.Wait() begins; the entries stay in the map
Shutdown ==
    /\ shut.st = "up"
    /\ \E ended \in SUBSET {b \in BetIDs : sched[b].st = "waiting"} :
          /\ \A b \in BetIDs :
                sched[b].st = "waiting" /\ ~TimerDue(b) => b \in ended
          /\ TasksEnded(ended)
    /\ shut' = [shut EXCEPT !.st = "waiting", !.elapsed = 0,
                            !.spent = [b \in BetIDs |-> 0]]
    /\ UNCHANGED <<ledgerVars, achVars, bets, closeWrites, timers, now, pc,
                   loc, calls, resp, solo,
                   preauth_token, roulette, users,
                   got_prizes, rating, spinObs>>

\* a store call without a deadline
WithinTickerTimeout(b) ==
    sched[b].st = "waiting" => shut.spent[b] < TickerTimeout

\* the call a task is in has time left before its timeout
WithinTimeout(b) ==
    /\ sched[b].st = "waiting" => shut.spent[b] < TickerTimeout
    /\ sched[b].st = "fetched" => shut.spent[b] < StoreTimeout

\* a second passes while s.wg.Wait() blocks: no call of a task in flight
\* outlives its timeout
ShutdownSecond ==
    /\ shut.st = "waiting"
    /\ \E b \in BetIDs : sched[b].st # "none"
    /\ \A b \in BetIDs : WithinTimeout(b)
    /\ shut.elapsed <= TickerTimeout + StoreTimeout  \* the count is capped
    /\ shut' = [shut EXCEPT !.elapsed = @ + 1,
                            !.spent = [b \in BetIDs |->
                                         IF sched[b].st = "none" THEN 0
                                         ELSE shut.spent[b] + 1]]
    /\ UNCHANGED <<ledgerVars, achVars, bets, sched, closeWrites, timers,
                   taskLog, now, pc, loc, calls, resp, solo,
                   preauth_token, roulette, users,
                   got_prizes, rating, spinObs>>

\* s.wg.Wait() returns when every goroutine has ended
ShutdownReturn ==
    /\ shut.st = "waiting"
    /\ \A b \in BetIDs : sched[b].st = "none"
    /\ shut' = [shut EXCEPT !.st = "done"]
    /\ UNCHANGED <<ledgerVars, achVars, bets, sched, closeWrites, timers,
                   taskLog, now, pc, loc, calls, resp, solo,
                   preauth_token, roulette, users,
                   got_prizes, rating, spinObs>>

\* the process ends and main starts again: the requests in flight and the
\* goroutines of the scheduler are gone, the tables are as they were, and
\* NewBetScheduler builds a scheduler with an empty map; main reads no bets
Restart ==
    /\ shut.boots < MaxRestarts
    /\ pc' = [p \in Procs |-> "idle"]
    /\ loc' = [p \in Procs |-> NoLoc]
    /\ sched' = [b \in BetIDs |-> NoTimer]
    /\ timers' = {}
    /\ shut' = [SchedulerUp EXCEPT !.boots = shut.boots + 1]
    /\ UNCHANGED <<ledgerVars, achVars, bets, closeWrites, taskLog, now,
                   calls, resp, solo,
                   preauth_token, roulette, users,
                   got_prizes, rating, spinObs>>

BetNext ==
    \/ Tick
    \/ \E p \in Procs, side \in Sides, sum \in Sums, timeframe \in Timeframes,
          openPrice \in OpenPrices, openTime \in OpenTimes :
          OpenBet(p, side, sum, timeframe, openPrice, openTime)
    \/ \E p \in Procs : OpenFetch(p)
    \/ \E p \in Procs : OpenWrite(p)
    \/ \E b \in BetIDs : scheduleCloseBet(b)
    \/ \E b \in BetIDs : closeBet(b)
    \/ \E p \in Procs, b \in BetIDs, user \in Users : StatusRead(p, b, user)
    \/ \E p \in Procs : StatusFetch(p)
    \/ \E p \in Procs : StatusWrite(p)

SpecBet == Init /\ [][BetNext]_vars

(***************************************************************************)
(* Claims about bet settlement                                             *)
(***************************************************************************)
\* C4: whichever settlement paths race on one bet, at most one of them
\* writes close_price; every later settler leaves the stored value alone.
C4_ClosePriceWrittenOnce == \A b \in BetIDs : closeWrites[b] <= 1

\* C5: a settled bet's close_time is open_time + timeframe, on every
\* settlement path, and never the wall-clock time of the write.
C5_CloseTimeIsExpected ==
    \A b \in DOMAIN bets :
        bets[b].close_price # NullPrice
            => bets[b].close_time = ExpectedCloseTime(bets[b])


(***************************************************************************)
(* Ledger: the rating repository, BetService.ClaimBet and the              *)
(* reconciliation run by RatingService.GetUserAssets                       *)
(***************************************************************************)
PointsAdd(a, b) == Points(a.g + b.g, a.u + b.u)
PointsPositive(a) == a.g > 0 \/ (a.g = 0 /\ a.u > 0)

\* EXTRACT(EPOCH FROM NOW())::BIGINT * 1000: the clock rounded to a second
RoundToSecond(t) ==
    ((2 * t + TicksPerSecond) \div (2 * TicksPerSecond)) * TicksPerSecond

NoSources == [bets |-> {}, prizes |-> {}]

\* AddPoints against a rating table whose points column carries
\* CHECK (points >= 0): the INSERT of a negative amount is rejected
AddPointsNonNegative(user, points, gotPrizeID, betID, sources) ==
    IF points = ZeroPoints \/ ~PointsPositive(points) THEN rating
    ELSE Append(rating, [user |-> user, points |-> points,
                         got_prize_id |-> gotPrizeID, bet_id |-> betID,
                         created_at |-> RoundToSecond(now),
                         sources |-> sources])

RatingRowsOf(user) == {i \in DOMAIN rating : rating[i].user = user}

\* a ledger that keeps one row per user: the points are added to the
\* user's row when there is one
AddPointsUpsert(user, points, gotPrizeID, betID, sources) ==
    IF points = ZeroPoints THEN rating
    ELSE IF RatingRowsOf(user) = {}
    THEN Append(rating, [user |-> user, points |-> points,
                         got_prize_id |-> gotPrizeID, bet_id |-> betID,
                         created_at |-> RoundToSecond(now),
                         sources |-> sources])
    ELSE LET i == CHOOSE k \in RatingRowsOf(user) : TRUE
         IN  [rating EXCEPT ![i].points = PointsAdd(@, points),
                            ![i].created_at = RoundToSecond(now)]

\* AddPoints: no row for zero points, else INSERT INTO rating.  The field
\* sources is history: the bets and prizes the points of the row stand for.
AddPoints(user, points, gotPrizeID, betID, sources) ==
    IF points = ZeroPoints THEN rating
    ELSE Append(rating, [user |-> user, points |-> points,
                         got_prize_id |-> gotPrizeID, bet_id |-> betID,
                         created_at |-> RoundToSecond(now),
                         sources |-> sources])

\* SELECT MAX(created_at) FROM rating WHERE user_uuid = $1
GetMaxCreatedAt(user) ==
    IF RatingRowsOf(user) = {} THEN NullTime
    ELSE CHOOSE t \in {rating[i].created_at : i \in RatingRowsOf(user)} :
            \A i \in RatingRowsOf(user) : rating[i].created_at <= t

RECURSIVE SumPoints(_, _)
SumPoints(rows, n) ==
    IF n = 0 THEN ZeroPoints
    ELSE PointsAdd(SumPoints(rows, n - 1), rows[n].points)

\* the same sum over the rows of bet claims only
GetUserClaimTotals(user) ==
    LET rows == SelectSeq(rating, LAMBDA r : r.user = user /\ r.bet_id # 0)
    IN  SumPoints(rows, Len(rows))

\* SELECT COALESCE(SUM(points), 0) FROM rating WHERE user_uuid = $1
GetUserRatingTotals(user) ==
    LET rows == SelectSeq(rating, LAMBDA r : r.user = user)
    IN  SumPoints(rows, Len(rows))

determinePrizeStatus(bet) ==
    IF bet.close_price = NullPrice THEN "pending"
    ELSE IF bet.side = "pump" /\ bet.close_price > bet.open_price THEN "win"
    ELSE IF bet.side = "dump" /\ bet.close_price < bet.open_price THEN "win"
    ELSE "lose"

betPoints(bet) ==
    IF determinePrizeStatus(bet) = "win" THEN Points(0, bet.sum)
    ELSE Points(0, 0 - bet.sum)

\* ClaimBet: GetBetByID and the checks on the row read
ClaimRead(p, b, user) ==
    /\ Begin(p)
    /\ IF b > Len(bets) \/ bets[b].user # user
       THEN Fail(p, "claim", "bet not found")
       ELSE IF bets[b].close_price = NullPrice
       THEN Fail(p, "claim", "bet is not closed yet")
       ELSE IF bets[b].claimed
       THEN Fail(p, "claim", "bet already claimed")
       ELSE Goto(p, "cb_update", [op |-> "claim", bet |-> b, row |-> bets[b]])
    /\ UNCHANGED <<ledgerVars, achVars, betVars, now, preauth_token, roulette,
                   users, got_prizes, rating, spinObs>>

\* UPDATE bets SET claimed = $3 WHERE id = $1 AND user_uuid = $2
UpdateBetClaimStatus(id, claimed) == [bets EXCEPT ![id].claimed = claimed]

ClaimUpdate(p) ==
    /\ pc[p] = "cb_update"
    /\ bets' = UpdateBetClaimStatus(loc[p].bet, TRUE)
    /\ Goto(p, "cb_add", loc[p])
    /\ UNCHANGED <<ledgerVars, achVars, sched, closeWrites, schedVars, now,
                   calls,
                   preauth_token, roulette, users, got_prizes, rating, spinObs>>

ClaimAdd(p) ==
    /\ pc[p] = "cb_add"
    /\ rating' = AddPoints(loc[p].row.user, betPoints(loc[p].row), 0, loc[p].bet,
                           [NoSources EXCEPT !.bets = {loc[p].bet}])
    /\ claimOk' = [claimOk EXCEPT ![loc[p].bet] = @ + 1]
    /\ Return(p, [NoResp EXCEPT !.op = "claim", !.ok = TRUE, !.bet = loc[p].bet])
    /\ UNCHANGED <<reconSnap, rerun, achVars, betVars, now, calls,
                   preauth_token, roulette, users, got_prizes, spinObs>>


\* SELECT COALESCE(SUM(points), 0) FROM rating WHERE user_uuid = $1 AND
\* bet_id IS NOT NULL AND got_prize_id IS NULL AND created_at >= $2 AND
\* created_at < $3
GetUserBetPointsInRange(user, startMs, endMs) ==
    LET rows == SelectSeq(rating, LAMBDA r : /\ r.user = user
                                            /\ r.bet_id # 0
                                            /\ r.got_prize_id = 0
                                            /\ r.created_at >= startMs
                                            /\ r.created_at < endMs)
    IN  SumPoints(rows, Len(rows))

\* the points a user collected in a window, as the event progress reports
BetPointsInRange(p, user, startMs, endMs) ==
    /\ Begin(p)
    /\ Return(p, [NoResp EXCEPT !.op = "range", !.ok = TRUE, !.user = user,
                                !.total = GetUserBetPointsInRange(user, startMs,
                                                                  endMs)])
    /\ UNCHANGED <<ledgerVars, achVars, betVars, now, preauth_token, roulette,
                   users, got_prizes, rating, spinObs>>

\* the INSERT of AddPoints fails: ClaimBet returns the error, after its
\* UPDATE of the bet
ClaimAddFail(p) ==
    /\ pc[p] = "cb_add"
    /\ Fail(p, "claim", "failed to add bet points")
    /\ UNCHANGED <<ledgerVars, achVars, betVars, now, calls, preauth_token,
                   roulette, users, got_prizes, rating, spinObs>>

GetPrizesByUserID(user) == SelectSeq(got_prizes, LAMBDA z : z.user = user)

GetWinningBetsByUser(user) ==
    SelectSeq(bets, LAMBDA z : z.user = user /\ determinePrizeStatus(z) = "win")

\* strconv.ParseInt of the prize value: only a string of digits parses
parsePrizeValueToPoints(prizeValue) ==
    IF prizeValue.k = "digits"
    THEN [ok |-> TRUE, points |-> Points(0, prizeValue.n)]
    ELSE [ok |-> FALSE, points |-> ZeroPoints]

\* the prizes processPrizes counts: awarded after the cursor, and parsable
PrizeCounts(prize, maxCreatedAt) ==
    /\ ~(maxCreatedAt # NullTime /\ prize.awarded_at <= maxCreatedAt)
    /\ parsePrizeValueToPoints(prize.prize_value).ok

RECURSIVE processPrizes(_, _, _)
processPrizes(prizes, n, maxCreatedAt) ==
    IF n = 0 THEN ZeroPoints
    ELSE IF PrizeCounts(prizes[n], maxCreatedAt)
    THEN PointsAdd(processPrizes(prizes, n - 1, maxCreatedAt),
                   parsePrizeValueToPoints(prizes[n].prize_value).points)
    ELSE processPrizes(prizes, n - 1, maxCreatedAt)

\* the bets processBets counts: closed after the cursor
BetCounts(bet, maxCreatedAt) ==
    ~(maxCreatedAt # NullTime /\ bet.close_time # NullTime
        /\ bet.close_time <= maxCreatedAt)

\* int64(bet.Sum * 1e9) for each counted bet
RECURSIVE processBets(_, _, _)
processBets(wins, n, maxCreatedAt) ==
    IF n = 0 THEN ZeroPoints
    ELSE IF BetCounts(wins[n], maxCreatedAt)
    THEN PointsAdd(processBets(wins, n - 1, maxCreatedAt),
                   Points(wins[n].sum, 0))
    ELSE processBets(wins, n - 1, maxCreatedAt)

Tables == <<bets, got_prizes, rating>>

\* GetUserAssets, collectPrizesAndBets: read the cursor
AssetsCursor(p, user) ==
    /\ Begin(p)
    /\ Goto(p, "ua_fetch",
            [op |-> "assets", user |-> user, cursor |-> GetMaxCreatedAt(user),
             todo |-> {"prizes", "bets"}, prizes |-> <<>>, wins |-> <<>>,
             start |-> Tables])
    /\ UNCHANGED <<ledgerVars, achVars, betVars, now, preauth_token, roulette,
                   users, got_prizes, rating, spinObs>>

\* the two fetches run in parallel: either may come first
AssetsFetch(p, what) ==
    /\ pc[p] = "ua_fetch"
    /\ what \in loc[p].todo
    /\ LET l == [loc[p] EXCEPT
                    !.todo = @ \ {what},
                    !.prizes = IF what = "prizes"
                               THEN GetPrizesByUserID(loc[p].user) ELSE @,
                    !.wins = IF what = "bets"
                             THEN GetWinningBetsByUser(loc[p].user) ELSE @]
       IN Goto(p, IF l.todo = {} THEN "ua_add" ELSE "ua_fetch", l)
    /\ UNCHANGED <<ledgerVars, achVars, betVars, now, calls, preauth_token,
                   roulette, users, got_prizes, rating, spinObs>>

\* the one row a reconciliation appends, when it counted anything.  History:
\* a run is undisturbed when the tables stayed as its first read found them;
\* reconSnap keeps what an undisturbed run left, and rerun counts the rows
\* appended by an undisturbed run that started from exactly that.
AssetsAdd(p) ==
    /\ pc[p] = "ua_add"
    /\ LET l == loc[p]
           prizePoints == processPrizes(l.prizes, Len(l.prizes), l.cursor)
           betsPoints == processBets(l.wins, Len(l.wins), l.cursor)
           sources ==
               [bets |-> {l.wins[i].id : i \in
                            {j \in DOMAIN l.wins : BetCounts(l.wins[j], l.cursor)}},
                prizes |-> {l.prizes[i].id : i \in
                            {j \in DOMAIN l.prizes :
                                PrizeCounts(l.prizes[j], l.cursor)}}]
           undisturbed == Tables = l.start
           again == undisturbed /\ reconSnap = <<l.user, Tables>>
       IN /\ rating' = IF PointsPositive(prizePoints) \/ PointsPositive(betsPoints)
                       THEN AddPoints(l.user, PointsAdd(prizePoints, betsPoints),
                                      0, 0, sources)
                       ELSE rating
          /\ reconSnap' = IF undisturbed
                          THEN <<l.user, <<bets, got_prizes, rating'>> >>
                          ELSE NoSnap
          /\ rerun' = IF again /\ rating' # rating THEN rerun + 1 ELSE rerun
    /\ Goto(p, "ua_totals", [op |-> "assets", user |-> loc[p].user])
    /\ UNCHANGED <<claimOk, achVars, betVars, now, calls, preauth_token,
                   roulette, users, got_prizes, spinObs>>

AssetsTotals(p) ==
    /\ pc[p] = "ua_totals"
    /\ Return(p, [NoResp EXCEPT !.op = "assets", !.ok = TRUE,
                                !.total = GetUserRatingTotals(loc[p].user)])
    /\ UNCHANGED <<ledgerVars, achVars, betVars, now, calls, preauth_token,
                   roulette, users, got_prizes, rating, spinObs>>

\* bets as the ledger's requests open them: already past their close time,
\* so that OpenBet closes them at once
LedgerNext ==
    \/ Tick
    \/ \E p \in Procs, side \in {"pump", "dump"} :
          OpenBet(p, side, 1, 1, 2, now - Seconds(1))
    \/ \E p \in Procs : OpenFetch(p)
    \/ \E p \in Procs : OpenWrite(p)
    \/ \E p \in Procs, b \in BetIDs, user \in Users : ClaimRead(p, b, user)
    \/ \E p \in Procs : ClaimUpdate(p)
    \/ \E p \in Procs : ClaimAdd(p)
    \/ \E p \in Procs : AssetsCursor(p, BetUser)
    \/ \E p \in Procs, what \in {"prizes", "bets"} : AssetsFetch(p, what)
    \/ \E p \in Procs : AssetsAdd(p)
    \/ \E p \in Procs : AssetsTotals(p)

SpecLedger == Init /\ [][LedgerNext]_vars

\* bets opened past their close time, settled at once, and claimed
ClaimNext ==
    \/ \E p \in Procs, side \in {"pump", "dump"} :
          OpenBet(p, side, 1, 1, 2, now - Seconds(1))
    \/ \E p \in Procs : OpenFetch(p)
    \/ \E p \in Procs : OpenWrite(p)
    \/ \E p \in Procs, b \in BetIDs, user \in Users : ClaimRead(p, b, user)
    \/ \E p \in Procs : ClaimUpdate(p)
    \/ \E p \in Procs : ClaimAdd(p)

SpecClaim == Init /\ [][ClaimNext]_vars

\* the claims of bets settled at once, with a store that may fail the
\* INSERT of the ledger row
ClaimFailNext ==
    \/ \E p \in Procs, side \in {"pump", "dump"} :
          OpenBet(p, side, 1, 1, 2, now - Seconds(1))
    \/ \E p \in Procs : OpenFetch(p)
    \/ \E p \in Procs : OpenWrite(p)
    \/ \E p \in Procs, b \in BetIDs, user \in Users : ClaimRead(p, b, user)
    \/ \E p \in Procs : ClaimUpdate(p)
    \/ \E p \in Procs : ClaimAdd(p)
    \/ \E p \in Procs : ClaimAddFail(p)

SpecClaimFail == Init /\ [][ClaimFailNext]_vars

\* the competition window: it opens on the full second at which the runs
\* below start and closes a second later
WindowStart == StartTime - 1
WindowEnd == WindowStart + Seconds(1)
\* the bounds a range query is asked with
RangeBounds == {0, WindowStart, WindowEnd}
RangeSum == 10

\* a bet of RangeSum settled before the window opened
SettledBet(id, user, side) ==
    [id |-> id, user |-> user, side |-> side, sum |-> RangeSum, timeframe |-> 1,
     open_price |-> 2, close_price |-> 3,
     open_time |-> WindowStart - Seconds(1), close_time |-> WindowStart,
     claimed |-> FALSE]

\* two settled bets, the first won by BetUser, the second won or lost by
\* either user, none claimed yet
RangeInit ==
    \E user \in Users, side \in {"pump", "dump"} :
        InitWith(WindowStart,
                 <<SettledBet(1, BetUser, "pump"), SettledBet(2, user, side)>>,
                 2)

RangeNext ==
    \/ Tick
    \/ \E p \in Procs, b \in {1, 2}, user \in Users :
          ClaimRead(p, b, user)
    \/ \E p \in Procs : ClaimUpdate(p)
    \/ \E p \in Procs : ClaimAdd(p)
    \/ \E p \in Procs, user \in Users, startMs, endMs \in RangeBounds :
          BetPointsInRange(p, user, startMs, endMs)

SpecRange == RangeInit /\ [][RangeNext]_vars

\* one client opens bets that are won at once and claims them while the
\* other asks for the assets of either user, all at one moment
TotalsNext ==
    \/ OpenBet(Opener, "pump", 1, 1, 2, now - Seconds(1))
    \/ OpenFetch(Opener)
    \/ OpenWrite(Opener)
    \/ \E b \in BetIDs : ClaimRead(Opener, b, BetUser)
    \/ ClaimUpdate(Opener)
    \/ ClaimAdd(Opener)
    \/ \E user \in Users : AssetsCursor(Poller, user)
    \/ \E what \in {"prizes", "bets"} : AssetsFetch(Poller, what)
    \/ AssetsAdd(Poller)
    \/ AssetsTotals(Poller)

SpecTotals == Init /\ [][TotalsNext]_vars

(***************************************************************************)
(* Claims about the ledger                                                 *)
(***************************************************************************)
BetLedgerRows(b) == {i \in DOMAIN rating : rating[i].bet_id = b}

\* C7: a bet is claimed successfully at most once and has at most one
\* ledger row carrying its bet_id, however claims interleave.
C7_BetClaimedOnce ==
    \A b \in BetIDs : claimOk[b] <= 1 /\ Cardinality(BetLedgerRows(b)) <= 1

\* C8: a reconciliation run directly after another, with the tables as the
\* first run left them, appends no ledger row.
C8_ReconcileIdempotent == rerun = 0

BetCredits(b) == {i \in DOMAIN rating : b \in rating[i].sources.bets}
PrizeCredits(g) == {i \in DOMAIN rating : g \in rating[i].sources.prizes}

\* the rows reconciliations appended: they carry no source id
ReconcileRows ==
    {i \in DOMAIN rating : rating[i].bet_id = 0 /\ rating[i].got_prize_id = 0}

\* C9: a bet or prize that a reconciliation credited is credited by no
\* other ledger row, whether an eager claim or another reconciliation, and
\* whichever of them ran first.
C9_NoDoubleCredit ==
    /\ \A b \in BetIDs :
          BetCredits(b) \cap ReconcileRows # {} => Cardinality(BetCredits(b)) <= 1
    /\ \A g \in DOMAIN got_prizes :
          PrizeCredits(g) \cap ReconcileRows # {}
              => Cardinality(PrizeCredits(g)) <= 1

\* the step is the write of the reconciliation that process p runs
ReconcileWrites(p) == pc[p] = "ua_add" /\ pc'[p] = "ua_totals"

RECURSIVE SumOver(_)
SumOver(rowIDs) ==
    IF rowIDs = {} THEN ZeroPoints
    ELSE LET i == CHOOSE k \in rowIDs : TRUE
         IN  PointsAdd(rating[i].points, SumOver(rowIDs \ {i}))

\* both bets belong to the user, are won, and each was claimed once, all
\* of it while the window is open
ClaimedTwoInWindow(user) ==
    /\ Len(bets) = 2
    /\ \A b \in DOMAIN bets :
          /\ bets[b].user = user
          /\ determinePrizeStatus(bets[b]) = "win"
          /\ bets[b].claimed
          /\ claimOk[b] = 1
    /\ \A q \in Procs : loc[q].op # "claim"
    /\ now >= WindowStart /\ now < WindowEnd

\* C34: a range query returns the sum of the points of exactly the user's
\* ledger rows with a bet id, no prize id and start <= created_at < end;
\* asked for the event window by a user who has claimed two winning bets of
\* sum 10 inside the window, it returns 20.
C34_BetPointsInRange ==
    [][\A p \in Procs, user \in Users, startMs, endMs \in RangeBounds :
          BetPointsInRange(p, user, startMs, endMs) =>
             /\ resp'.total =
                    SumOver({i \in DOMAIN rating :
                               /\ rating[i].user = user
                               /\ rating[i].bet_id # 0
                               /\ rating[i].got_prize_id = 0
                               /\ startMs <= rating[i].created_at
                               /\ rating[i].created_at < endMs})
             /\ (/\ ClaimedTwoInWindow(user)
                 /\ startMs = WindowStart /\ endMs = WindowEnd)
                   => resp'.total = Points(0, 2 * RangeSum)]_vars

\* the first half of that statement alone
RangeIsSumOfRows ==
    [][\A p \in Procs, user \in Users, startMs, endMs \in RangeBounds :
          BetPointsInRange(p, user, startMs, endMs) =>
             resp'.total =
                    SumOver({i \in DOMAIN rating :
                               /\ rating[i].user = user
                               /\ rating[i].bet_id # 0
                               /\ rating[i].got_prize_id = 0
                               /\ startMs <= rating[i].created_at
                               /\ rating[i].created_at < endMs})]_vars

\* C36: the balance an asset query reports for a user is the sum of the
\* points of all of the user's ledger rows at the moment of the report, the
\* row its own reconciliation appended included.
C36_TotalsIsLedgerSum ==
    [][\A p \in Procs :
          (pc[p] = "ua_totals" /\ pc'[p] = "idle") =>
             /\ resp'.op = "assets" /\ resp'.ok
             /\ resp'.total =
                    SumOver({i \in DOMAIN rating : rating[i].user = loc[p].user})]_vars

\* an asset query has reported a balance made of the row of a bet claim and
\* of the row a reconciliation appended last
C36_ReportedAfterReconcile ==
    /\ Quiescent
    /\ resp.op = "assets" /\ resp.ok
    /\ Len(rating) >= 2
    /\ rating[Len(rating)].bet_id = 0 /\ rating[Len(rating)].got_prize_id = 0
    /\ \E i \in DOMAIN rating : rating[i].bet_id # 0
    /\ resp.total = SumOver(RatingRowsOf(BetUser))

\* C39: a bet claim is atomic: once no claim of the bet is running, the bet
\* is claimed exactly when the ledger holds its row; a claim whose ledger
\* append failed leaves the bet unclaimed, for the claim to be retried.
C39_ClaimAtomic ==
    \A b \in DOMAIN bets :
        (\A p \in Procs : ~(loc[p].op = "claim" /\ loc[p].bet = b)) =>
            (bets[b].claimed <=> \E i \in DOMAIN rating : rating[i].bet_id = b)

\* C31: a reconciliation appends exactly one ledger row per new source: for
\* each prize awarded after the cursor a row with got_prize_id = the prize's
\* id and the prize's points, and for each winning bet closed after the
\* cursor a row with bet_id = the bet's id and +sum points.
C31_ReconcileRowPerSource ==
    [][\A p \in Procs :
          ReconcileWrites(p) =>
             LET l == loc[p]
                 newBets == {l.wins[j] : j \in
                               {k \in DOMAIN l.wins : BetCounts(l.wins[k], l.cursor)}}
                 newPrizes == {l.prizes[j] : j \in
                                 {k \in DOMAIN l.prizes :
                                     PrizeCounts(l.prizes[k], l.cursor)}}
                 newRows == {i \in DOMAIN rating' : i > Len(rating)}
             IN  /\ Cardinality(newRows)
                       = Cardinality(newBets) + Cardinality(newPrizes)
                 /\ \A bet \in newBets :
                       \E i \in newRows :
                          /\ rating'[i].bet_id = bet.id
                          /\ rating'[i].got_prize_id = 0
                          /\ rating'[i].points = Points(0, bet.sum)
                 /\ \A prize \in newPrizes :
                       \E i \in newRows :
                          /\ rating'[i].got_prize_id = prize.id
                          /\ rating'[i].points =
                                parsePrizeValueToPoints(prize.prize_value).points
         ]_vars

\* the signed amount a settled bet stands for: +sum for a win, -sum for a loss
SignedSum(bet) ==
    IF \/ bet.side = "pump" /\ bet.close_price > bet.open_price
       \/ bet.side = "dump" /\ bet.close_price < bet.open_price
    THEN Points(0, bet.sum)
    ELSE Points(0, 0 - bet.sum)

HasWinningBet(user) == Len(GetWinningBetsByUser(user)) > 0

AchResp(o, e) == [NoResp EXCEPT !.op = o, !.ok = TRUE, !.err = e]

\* UpdateAchievementStatus("first_bet_success"): is there a winning bet
AchCheck(p, a) ==
    /\ Begin(p)
    /\ IF ~HasWinningBet(BetUser)
       THEN Return(p, AchResp("ach_status", "not_completed"))
       ELSE Goto(p, "as_add", [op |-> "ach_status", ach |-> a])
    /\ UNCHANGED <<ledgerVars, achVars, betVars, now, preauth_token, roulette,
                   users, got_prizes, rating, spinObs>>

\* AddUserAchievement: INSERT ... ON CONFLICT (user_uuid, achievement_id)
\* DO NOTHING, with steps_got = need_steps = the achievement's steps
AddUserAchievement(a, stepsGot, needSteps) ==
    IF user_achievements[a].exists THEN user_achievements
    ELSE [user_achievements EXCEPT ![a] =
            [exists |-> TRUE, steps_got |-> stepsGot, need_steps |-> needSteps,
             claimed_status |-> FALSE]]

AchAdd(p) ==
    /\ pc[p] = "as_add"
    /\ LET a == loc[p].ach
       IN /\ user_achievements' =
                 AddUserAchievement(a, Achievements[a].steps, Achievements[a].steps)
          /\ Return(p, AchResp("ach_status",
                               IF user_achievements[a].exists
                               THEN "already_exists" ELSE "created"))
    /\ UNCHANGED <<ledgerVars, achOk, winCalls, eventVars, betVars, now, calls,
                   preauth_token,
                   roulette, users, got_prizes, rating, spinObs>>

\* ClaimAchievement: GetUserAchievementStatus and the checks on the row read
AchClaimRead(p, a) ==
    /\ Begin(p)
    /\ LET status == user_achievements[a]
       IN IF ~status.exists
          THEN Fail(p, "ach_claim", "user achievement not found")
          ELSE IF status.claimed_status
          THEN Fail(p, "ach_claim", "achievement already claimed")
          ELSE IF status.steps_got < status.need_steps
          THEN Fail(p, "ach_claim", "achievement is not completed yet")
          ELSE Goto(p, "ac_prize", [op |-> "ach_claim", ach |-> a])
    /\ UNCHANGED <<ledgerVars, achVars, betVars, now, preauth_token, roulette,
                   users, got_prizes, rating, spinObs>>

\* the prize string: the label, or the digits of the value when it is empty
AchPrizeString(pv) == IF pv.label = EmptyStr THEN Digits(pv.value) ELSE pv.label

AchClaimPrize(p) ==
    /\ pc[p] = "ac_prize"
    /\ got_prizes' = CreatePrize(BetUser, "event_reward",
                                 AchPrizeString(FirstWinPrizeValue),
                                 FirstWinPrizeValue.id)
    /\ Goto(p, "ac_points", [op |-> "ach_claim", ach |-> loc[p].ach,
                             prize |-> Len(got_prizes) + 1])
    /\ UNCHANGED <<ledgerVars, achVars, betVars, now, calls, preauth_token,
                   roulette, users, rating, spinObs>>

AchClaimPoints(p) ==
    /\ pc[p] = "ac_points"
    /\ rating' = AddPoints(BetUser, Points(0, FirstWinPrizeValue.value),
                           loc[p].prize, 0,
                           [NoSources EXCEPT !.prizes = {loc[p].prize}])
    /\ Goto(p, "ac_status", loc[p])
    /\ UNCHANGED <<ledgerVars, achVars, betVars, now, calls, preauth_token,
                   roulette, users, got_prizes, spinObs>>

\* UPDATE user_achievements SET claimed_status = $1
\* WHERE user_uuid = $2 AND achievement_id = $3
UpdateUserAchievementClaimStatus(a, claimed) ==
    [user_achievements EXCEPT ![a].claimed_status = claimed]

AchClaimStatus(p) ==
    /\ pc[p] = "ac_status"
    /\ user_achievements' = UpdateUserAchievementClaimStatus(loc[p].ach, TRUE)
    /\ achOk' = [achOk EXCEPT ![loc[p].ach] = @ + 1]
    /\ Return(p, [NoResp EXCEPT !.op = "ach_claim", !.ok = TRUE])
    /\ UNCHANGED <<ledgerVars, winCalls, eventVars, betVars, now, calls,
                   preauth_token, roulette,
                   users, got_prizes, rating, spinObs>>

\* AddPoints returning an error: ClaimAchievement returns it
AchClaimPointsFail(p) ==
    /\ pc[p] = "ac_points"
    /\ Fail(p, "ach_claim", "failed to add achievement points")
    /\ UNCHANGED <<ledgerVars, achVars, betVars, now, calls, preauth_token,
                   roulette, users, got_prizes, rating, spinObs>>

\* UpdateUserAchievementClaimStatus returning an error
AchClaimStatusFail(p) ==
    /\ pc[p] = "ac_status"
    /\ Fail(p, "ach_claim", "failed to update achievement claim")
    /\ UNCHANGED <<ledgerVars, achVars, betVars, now, calls, preauth_token,
                   roulette, users, got_prizes, rating, spinObs>>

\* INSERT ... ON CONFLICT (user_uuid, achievement_id) DO UPDATE: the row
\* holds the progress and the claimed flag the caller passes
UpsertUserAchievementProgress(a, stepsGot, needSteps, claimed) ==
    [user_achievements EXCEPT ![a] =
        [exists |-> TRUE, steps_got |-> stepsGot, need_steps |-> needSteps,
         claimed_status |-> claimed]]

Min(a, b) == IF a < b THEN a ELSE b

\* UpdateWinAchievementsOnBet, for one achievement of its list:
\* GetUserAchievementStatus, GetAchievementByID, and what it decides to write
OnWinRead(p, a) ==
    /\ Begin(p)
    /\ LET status == user_achievements[a]
           needSteps == Achievements[a].steps
           currentNeed == IF status.need_steps <= 0 THEN needSteps
                          ELSE status.need_steps
       IN IF ~status.exists
          THEN Goto(p, "ow_upsert",
                    [op |-> "on_win", ach |-> a, stepsGot |-> Min(1, needSteps),
                     needSteps |-> needSteps, new |-> TRUE])
          ELSE IF status.claimed_status \/ status.steps_got >= currentNeed
          THEN Return(p, AchResp("on_win", ""))
          ELSE Goto(p, "ow_upsert",
                    [op |-> "on_win", ach |-> a,
                     stepsGot |-> Min(status.steps_got + 1, currentNeed),
                     needSteps |-> currentNeed, new |-> FALSE])
    /\ UNCHANGED <<ledgerVars, achVars, betVars, now, preauth_token, roulette,
                   users, got_prizes, rating, spinObs>>

\* UpdateWinAchievementsOnBet: UpsertUserAchievementProgress(..., false)
OnWinUpsert(p) ==
    /\ pc[p] = "ow_upsert"
    /\ user_achievements' =
           UpsertUserAchievementProgress(loc[p].ach, loc[p].stepsGot,
                                         loc[p].needSteps, FALSE)
    /\ Return(p, AchResp("on_win", IF loc[p].new THEN "new" ELSE ""))
    /\ UNCHANGED <<ledgerVars, achOk, winCalls, eventVars, betVars, now, calls,
                   preauth_token,
                   roulette, users, got_prizes, rating, spinObs>>

\* a loop turn that writes nothing for a user without a status row
WinProgressExistingOnly(a) ==
    LET status == user_achievements[a]
        currentNeed == IF status.need_steps <= 0
                       THEN AchievementCatalog[a].steps ELSE status.need_steps
    IN IF ~status.exists \/ status.claimed_status
          \/ status.steps_got >= currentNeed
       THEN [write |-> FALSE, stepsGot |-> 0, needSteps |-> 0]
       ELSE [write |-> TRUE, stepsGot |-> Min(status.steps_got + 1, currentNeed),
             needSteps |-> currentNeed]

\* UpdateWinAchievementsOnBet, one turn of its loop: what it decides for
\* achievement a from the status row and the achievement's steps
WinProgress(a) ==
    LET status == user_achievements[a]
        needSteps == AchievementCatalog[a].steps
        currentNeed == IF status.need_steps <= 0 THEN needSteps
                       ELSE status.need_steps
    IN IF ~status.exists
       THEN [write |-> TRUE, stepsGot |-> Min(1, needSteps),
             needSteps |-> needSteps]
       ELSE IF status.claimed_status \/ status.steps_got >= currentNeed
       THEN [write |-> FALSE, stepsGot |-> 0, needSteps |-> 0]
       ELSE [write |-> TRUE, stepsGot |-> Min(status.steps_got + 1, currentNeed),
             needSteps |-> currentNeed]

\* the loop goes on with the ids left, or the call returns
WinContinue(p, l) ==
    IF l.todo = <<>>
    THEN Return(p, l.ret) /\ winCalls' = winCalls + 1
    ELSE Goto(p, "uw_status", l) /\ UNCHANGED winCalls

WinCall(ret) == [op |-> ret.op, todo |-> WinAchievementIDs, ret |-> ret]

\* a call of UpdateWinAchievementsOnBet for BetUser
UpdateWinAchievementsOnBet(p) ==
    /\ Begin(p)
    /\ Goto(p, "uw_status", WinCall(AchResp("on_win", "")))
    /\ UNCHANGED <<ledgerVars, achVars, betVars, now, preauth_token, roulette,
                   users, got_prizes, rating, spinObs>>

\* GetUserAchievementStatus and GetAchievementByID for the next id
WinStatus(p) ==
    /\ pc[p] = "uw_status"
    /\ LET a == Head(loc[p].todo)
           w == WinProgress(a)
           l == [loc[p] EXCEPT !.todo = Tail(@)]
       IN IF w.write
          THEN /\ Goto(p, "uw_upsert",
                       [op |-> l.op, todo |-> l.todo, ret |-> l.ret, ach |-> a,
                        stepsGot |-> w.stepsGot, needSteps |-> w.needSteps])
               /\ UNCHANGED winCalls
          ELSE WinContinue(p, l)
    /\ UNCHANGED <<ledgerVars, user_achievements, achOk, eventVars, betVars,
                   now, calls,
                   preauth_token, roulette, users, got_prizes, rating, spinObs>>

\* UpsertUserAchievementProgress(..., false) for that id
WinUpsert(p) ==
    /\ pc[p] = "uw_upsert"
    /\ user_achievements' =
           UpsertUserAchievementProgress(loc[p].ach, loc[p].stepsGot,
                                         loc[p].needSteps, FALSE)
    /\ WinContinue(p, [op |-> loc[p].op, todo |-> loc[p].todo,
                       ret |-> loc[p].ret])
    /\ UNCHANGED <<ledgerVars, achOk, eventVars, betVars, now, calls,
                   preauth_token,
                   roulette, users, got_prizes, rating, spinObs>>

\* the claim_bet request: ClaimBet, then UpdateWinAchievementsOnBet when
\* the bet claimed is a win
ClaimBetAdd(p) ==
    /\ pc[p] = "cb_add"
    /\ rating' = AddPoints(loc[p].row.user, betPoints(loc[p].row), 0, loc[p].bet,
                           [NoSources EXCEPT !.bets = {loc[p].bet}])
    /\ claimOk' = [claimOk EXCEPT ![loc[p].bet] = @ + 1]
    /\ LET ret == [NoResp EXCEPT !.op = "claim", !.ok = TRUE, !.bet = loc[p].bet]
       IN IF determinePrizeStatus(loc[p].row) = "win"
          THEN Goto(p, "uw_status", WinCall(ret))
          ELSE Return(p, ret)
    /\ UNCHANGED <<reconSnap, rerun, achVars, betVars, now, calls,
                   preauth_token, roulette, users, got_prizes, spinObs>>

AchNext ==
    \/ Tick
    \/ \E p \in Procs, side \in {"pump", "dump"} :
          OpenBet(p, side, 1, 1, 2, now - Seconds(1))
    \/ \E p \in Procs : OpenFetch(p)
    \/ \E p \in Procs : OpenWrite(p)
    \/ \E p \in Procs, a \in AchievementIDs : AchCheck(p, a)
    \/ \E p \in Procs : AchAdd(p)
    \/ \E p \in Procs, a \in AchievementIDs : AchClaimRead(p, a)
    \/ \E p \in Procs : AchClaimPrize(p)
    \/ \E p \in Procs : AchClaimPoints(p)
    \/ \E p \in Procs : AchClaimStatus(p)
    \/ \E p \in Procs, a \in AchievementIDs : OnWinRead(p, a)
    \/ \E p \in Procs : OnWinUpsert(p)

SpecAch == Init /\ [][AchNext]_vars

\* the achievement claim with the store errors it handles
AchClaimNext ==
    \/ \E p \in Procs, side \in {"pump", "dump"} :
          OpenBet(p, side, 1, 1, 2, now - Seconds(1))
    \/ \E p \in Procs : OpenFetch(p)
    \/ \E p \in Procs : OpenWrite(p)
    \/ \E p \in Procs, a \in AchievementIDs : AchCheck(p, a)
    \/ \E p \in Procs : AchAdd(p)
    \/ \E p \in Procs, a \in AchievementIDs : AchClaimRead(p, a)
    \/ \E p \in Procs : AchClaimPrize(p)
    \/ \E p \in Procs : AchClaimPoints(p)
    \/ \E p \in Procs : AchClaimPointsFail(p)
    \/ \E p \in Procs : AchClaimStatus(p)
    \/ \E p \in Procs : AchClaimStatusFail(p)

SpecAchClaim == Init /\ [][AchClaimNext]_vars

\* bets opened past their close time and settled at once, claim_bet
\* requests, and the achievement requests of the same user
WinNext ==
    \/ \E p \in Procs, side \in {"pump", "dump"} :
          OpenBet(p, side, 1, 1, 2, now - Seconds(1))
    \/ \E p \in Procs : OpenFetch(p)
    \/ \E p \in Procs : OpenWrite(p)
    \/ \E p \in Procs, b \in BetIDs : ClaimRead(p, b, BetUser)
    \/ \E p \in Procs : ClaimUpdate(p)
    \/ \E p \in Procs : ClaimBetAdd(p)
    \/ \E p \in Procs : WinStatus(p)
    \/ \E p \in Procs : WinUpsert(p)
    \/ \E p \in Procs, a \in AchievementIDs : AchCheck(p, a)
    \/ \E p \in Procs : AchAdd(p)
    \/ \E p \in Procs, a \in AchievementIDs : AchClaimRead(p, a)
    \/ \E p \in Procs : AchClaimPrize(p)
    \/ \E p \in Procs : AchClaimPoints(p)
    \/ \E p \in Procs : AchClaimStatus(p)

SpecWin == Init /\ [][WinNext]_vars

\* calls of UpdateWinAchievementsOnBet for one user, as the wins of the
\* user are claimed
OnWinNext ==
    \/ \E p \in Procs : UpdateWinAchievementsOnBet(p)
    \/ \E p \in Procs : WinStatus(p)
    \/ \E p \in Procs : WinUpsert(p)

SpecOnWin == Init /\ [][OnWinNext]_vars

(***************************************************************************)
(* Events: EventService.TakePartOnEvent, UpdateUserEventPrizeStatus and    *)
(* TakeEventPrize, for BetUser and the week's event                        *)
(***************************************************************************)
EventResp(o, e) == [NoResp EXCEPT !.op = o, !.ok = TRUE, !.err = e]

\* AddUserEvent: INSERT ... ON CONFLICT (user_uuid, event_id) DO NOTHING
AddUserEvent(ev) ==
    IF user_events[ev].exists THEN user_events
    ELSE [user_events EXCEPT ![ev] = [NoUserEvent EXCEPT !.exists = TRUE]]

TakePartOnEvent(p, ev) ==
    /\ Begin(p)
    /\ user_events' = AddUserEvent(ev)
    /\ Return(p, EventResp("take_part", IF user_events[ev].exists
                                        THEN "already_exists" ELSE "created"))
    /\ UNCHANGED <<ledgerVars, user_achievements, achOk, winCalls, takeOk,
                   betVars, now, preauth_token, roulette, users, got_prizes,
                   rating, spinObs>>

\* sort.Slice(prizeValue, value descending)
SortByValueDesc(rows) ==
    CHOOSE sq \in [1..Cardinality(rows) -> rows] :
        /\ {sq[i] : i \in DOMAIN sq} = rows
        /\ \A i, j \in DOMAIN sq : i < j => sq[i].value >= sq[j].value

\* the leaderboard holds at most three users
LeaderboardSize == 3
\* the user's position on the leaderboard the rating repository returns:
\* 0 when the user is not on it
Places == 0..LeaderboardSize

\* GetPrizeValuesByEventID
EventPrizeValuesOf(ev) ==
    IF ev = WeekEventID THEN WeekPrizeValues ELSE {FirstWinPrizeValue}

\* the prize value of the place idx (0-based) on the leaderboard
PlacePrizeValueID(ev, idx) ==
    LET prizeValue == SortByValueDesc(EventPrizeValuesOf(ev))
    IN  IF idx >= Len(prizeValue) THEN 0 ELSE prizeValue[idx + 1].id

\* UpdateUserEventPrizeStatus: the deadline check, GetUserEventPrizeStatus
\* and the leaderboard
PrizeStatusRead(p, ev, place) ==
    /\ Begin(p)
    /\ IF now < EventDeadline(ev)
       THEN Fail(p, "prize_status", "event is not finished yet")
       ELSE IF ~user_events[ev].exists
       THEN Fail(p, "prize_status", "user event not found")
       ELSE IF user_events[ev].has_prise_status # "null"
       THEN Return(p, EventResp("prize_status", "already_defined"))
       ELSE Goto(p, "ps_update",
                 [op |-> "prize_status", event |-> ev, place |-> place,
                  hasPrise |-> IF place > 0 THEN "true" ELSE "false",
                  prizeValueID |-> IF place > 0
                                   THEN PlacePrizeValueID(ev, place - 1)
                                   ELSE 0])
    /\ UNCHANGED <<ledgerVars, achVars, betVars, now, preauth_token, roulette,
                   users, got_prizes, rating, spinObs>>

\* the same UPDATE without its last condition
UpdateUserEventPrizeStatusAlways(ev, hasPrise, prizeValueID) ==
    IF user_events[ev].exists
    THEN [user_events EXCEPT ![ev].has_prise_status = hasPrise,
                             ![ev].prize_value_id = prizeValueID]
    ELSE user_events

\* UPDATE user_events SET has_prise_status, prize_value_id
\* WHERE ... AND has_prise_status IS NULL
UpdateUserEventPrizeStatusIfUnknown(ev, hasPrise, prizeValueID) ==
    IF user_events[ev].exists /\ user_events[ev].has_prise_status = "null"
    THEN [user_events EXCEPT ![ev].has_prise_status = hasPrise,
                             ![ev].prize_value_id = prizeValueID]
    ELSE user_events

PrizeStatusUpdate(p) ==
    /\ pc[p] = "ps_update"
    /\ user_events' = UpdateUserEventPrizeStatusIfUnknown(loc[p].event,
                                                          loc[p].hasPrise,
                                                          loc[p].prizeValueID)
    /\ Return(p, EventResp("prize_status",
                           IF user_events' = user_events
                           THEN "already_defined" ELSE "updated"))
    /\ UNCHANGED <<ledgerVars, user_achievements, achOk, winCalls, takeOk,
                   betVars, now, calls, preauth_token, roulette, users,
                   got_prizes, rating, spinObs>>

GetPrizeValueByID(id) == CHOOSE pv \in WeekPrizeValues : pv.id = id

\* TakeEventPrize: GetUserEventPrizeStatus and the checks on the row read
TakeEventRead(p) ==
    /\ Begin(p)
    /\ IF ~user_events[WeekEventID].exists
       THEN Fail(p, "take_event", "user event not found")
       ELSE IF user_events[WeekEventID].prize_value_id = 0
       THEN Fail(p, "take_event", "prize_value_id is not set for this event")
       ELSE IF user_events[WeekEventID].prize_taken_status
       THEN Fail(p, "take_event", "prize already taken")
       ELSE Goto(p, "te_prize",
                 [op |-> "take_event",
                  prizeValueID |-> user_events[WeekEventID].prize_value_id])
    /\ UNCHANGED <<ledgerVars, achVars, betVars, now, preauth_token, roulette,
                   users, got_prizes, rating, spinObs>>

TakeEventPrize(p) ==
    /\ pc[p] = "te_prize"
    /\ got_prizes' = CreatePrize(BetUser, "event_reward",
                                 AchPrizeString(GetPrizeValueByID(loc[p].prizeValueID)),
                                 loc[p].prizeValueID)
    /\ Goto(p, "te_update", loc[p])
    /\ UNCHANGED <<ledgerVars, achVars, betVars, now, calls, preauth_token,
                   roulette, users, rating, spinObs>>

\* UPDATE user_events SET prize_taken_status = $1
\* WHERE ... AND prize_taken_status = FALSE
UpdateUserEventPrizeTakenStatusIfNotTaken(ev, taken) ==
    IF user_events[ev].exists /\ ~user_events[ev].prize_taken_status
    THEN [user_events EXCEPT ![ev].prize_taken_status = taken]
    ELSE user_events

\* the guarded update; no row affected: "prize already taken"
TakeEventUpdate(p) ==
    /\ pc[p] = "te_update"
    /\ user_events' = UpdateUserEventPrizeTakenStatusIfNotTaken(WeekEventID,
                                                                TRUE)
    /\ IF user_events' = user_events
       THEN Fail(p, "take_event", "prize already taken")
       ELSE Goto(p, "te_ach", loc[p])
    /\ UNCHANGED <<ledgerVars, user_achievements, achOk, winCalls, takeOk,
                   betVars, now, calls, preauth_token, roulette, users,
                   got_prizes, rating, spinObs>>

\* SELECT ... FROM achievements WHERE prize_id = $1
GetAchievementByPrizeID(id) ==
    CHOOSE a \in DOMAIN WeekAchievements : WeekAchievements[a].prize_id = id

\* the placement achievement is upserted as claimed, and the prize returned
TakeEventAchievement(p) ==
    /\ pc[p] = "te_ach"
    /\ user_achievements' =
           UpsertUserAchievementProgress(
               GetAchievementByPrizeID(loc[p].prizeValueID), 1, 1, TRUE)
    /\ takeOk' = takeOk + 1
    /\ Return(p, [NoResp EXCEPT !.op = "take_event", !.ok = TRUE])
    /\ UNCHANGED <<ledgerVars, achOk, winCalls, user_events, betVars, now,
                   calls, preauth_token, roulette, users, got_prizes, rating,
                   spinObs>>

EventPrizeNext ==
    \/ Tick
    \/ \E p \in Procs : TakePartOnEvent(p, WeekEventID)
    \/ \E p \in Procs, place \in Places :
          PrizeStatusRead(p, WeekEventID, place)
    \/ \E p \in Procs : PrizeStatusUpdate(p)
    \/ \E p \in Procs : TakeEventRead(p)
    \/ \E p \in Procs : TakeEventPrize(p)
    \/ \E p \in Procs : TakeEventUpdate(p)
    \/ \E p \in Procs : TakeEventAchievement(p)

SpecEventPrize == Init /\ [][EventPrizeNext]_vars

\* update_prize_status for the events BetUser takes part in
PrizeStatusNext ==
    \/ Tick
    \/ \E p \in Procs, ev \in PrizeEvents : TakePartOnEvent(p, ev)
    \/ \E p \in Procs, ev \in PrizeEvents, place \in Places :
          PrizeStatusRead(p, ev, place)
    \/ \E p \in Procs : PrizeStatusUpdate(p)

SpecPrizeStatus == Init /\ [][PrizeStatusNext]_vars

(***************************************************************************)
(* Claims about the achievement claim                                      *)
(***************************************************************************)
AchPrizeRows(a) ==
    {i \in DOMAIN got_prizes :
        got_prizes[i].prize_value_id = Achievements[a].prize_id}
AchLedgerRows(a) ==
    {i \in DOMAIN rating : rating[i].got_prize_id \in AchPrizeRows(a)}

\* C10: for one user and one achievement at most one claim succeeds, and
\* at most one Prize row and one ledger credit exist for it, however the
\* claims interleave.
C10_AchievementClaimedOnce ==
    \A a \in AchievementIDs :
        /\ achOk[a] <= 1
        /\ Cardinality(AchPrizeRows(a)) <= 1
        /\ Cardinality(AchLedgerRows(a)) <= 1

\* C11: achievement monotonicity: on every user_achievements row steps_got
\* never decreases and claimed_status never goes from true back to false,
\* whichever of on_win, update_status and claim runs.
C11_AchievementMonotone ==
    [][\A a \in AchievementIDs :
          /\ user_achievements'[a].steps_got >= user_achievements[a].steps_got
          /\ user_achievements[a].claimed_status
                => user_achievements'[a].claimed_status]_vars

\* a claim_bet request of process p returns on this step
ClaimBetReturns(p) ==
    /\ pc[p] \in {"cb_add", "uw_status", "uw_upsert"}
    /\ loc[p].op = "claim"
    /\ pc'[p] = "idle"

C22_OnWinNoLostUpdate ==
    Quiescent
        => user_achievements["wins_10"].steps_got =
              Min(winCalls, AchievementCatalog["wins_10"].steps)

AchClaimInFlight == \E p \in Procs : loc[p].op = "ach_claim"

\* C23: the achievement claim is atomic: once no claim is running, the
\* Prize row, the ledger row of that prize and claimed_status = true are all
\* there or all absent, also after a claim that failed at the ledger append
\* or at the status update.
C23_AchievementClaimAtomic ==
    ~AchClaimInFlight =>
        \A a \in AchievementIDs :
            /\ (AchPrizeRows(a) # {}) = user_achievements[a].claimed_status
            /\ (AchPrizeRows(a) # {}) = (AchLedgerRows(a) # {})

TakeEventInFlight == \E p \in Procs : loc[p].op = "take_event"
WeekPrizeRows ==
    {i \in DOMAIN got_prizes :
        got_prizes[i].prize_value_id \in {pv.id : pv \in WeekPrizeValues}}

\* C24: take_event_prize awards at most once per user and event: at most
\* one call ever succeeds, and once no call is running there are exactly as
\* many Prize rows of the event as calls that succeeded; a call whose guarded
\* update affects no row leaves no Prize row behind.
C24_EventPrizeOnce ==
    /\ takeOk <= 1
    /\ ~TakeEventInFlight => Cardinality(WeekPrizeRows) = takeOk

\* C17: link_to_user on a token that is already linked leaves the token with
\* the user it had: for the same user it succeeds and changes nothing, for
\* a different user it fails with a conflict.
C17_LinkKeepsUser ==
    (SoloDone("link") /\ solo.tok.exists /\ solo.tok.user # NoUser)
    => /\ preauth_token.user = solo.tok.user
       /\ resp.op = "link"
       /\ resp.ok = (solo.rq.user = solo.tok.user)

\* C18: every get_preauth_token call for the session succeeds and returns
\* the token, also when another call for the same session and IP inserted
\* the row first: the caller that loses the insert reads the row instead.
C18_ResolveOrCreate ==
    resp.op = "get_token" => resp.ok /\ resp.token /\ preauth_token.exists

AppendNext ==
    \/ OpenBet(Opener, "pump", 1, 1, 2, now - Seconds(1))
    \/ OpenFetch(Opener)
    \/ OpenWrite(Opener)
    \/ \E b \in BetIDs : ClaimRead(Opener, b, BetUser)
    \/ ClaimUpdate(Opener)
    \/ ClaimAdd(Opener)
    \/ AssetsCursor(Opener, BetUser)
    \/ \E what \in {"prizes", "bets"} : AssetsFetch(Opener, what)
    \/ AssetsAdd(Opener)
    \/ AssetsTotals(Opener)
    \/ \E a \in AchievementIDs : AchCheck(Opener, a)
    \/ AchAdd(Opener)
    \/ \E a \in AchievementIDs : AchClaimRead(Opener, a)
    \/ AchClaimPrize(Opener)
    \/ AchClaimPoints(Opener)
    \/ AchClaimStatus(Opener)
    \/ SpinResolve(Opener, "session", 0, TRUE)
    \/ SpinCreateToken(Opener)
    \/ SpinRead(Opener)
    \/ SpinWrite(Opener)
    \/ SpinMark(Opener)
    \/ SpinPrize(Opener)
    \/ TakeResolve(Opener, "session", 0, TRUE)
    \/ TakeRead(Opener)
    \/ TakeCreatePrize(Opener)
    \/ TakeUpdate(Opener)
    \/ TakeMark(Opener)
    \/ TakePartOnEvent(Opener, WeekEventID)
    \/ PrizeStatusRead(Opener, WeekEventID, 1)
    \/ PrizeStatusUpdate(Opener)
    \/ TakeEventRead(Opener)
    \/ TakeEventPrize(Opener)
    \/ TakeEventUpdate(Opener)
    \/ TakeEventAchievement(Opener)

\* the runs start when the week's event has just ended
AppendInit == InitAt(WeekDeadline)

SpecAppend == AppendInit /\ [][AppendNext]_vars

\* C35: the ledger is append-only: no step of a bet claim, a roulette prize,
\* a reconciliation, an achievement claim or an event prize deletes a
\* rating row or changes the points or created_at of one.
C35_LedgerAppendOnly ==
    [][/\ Len(rating') >= Len(rating)
       /\ \A i \in DOMAIN rating :
             /\ rating'[i].points = rating[i].points
             /\ rating'[i].created_at = rating[i].created_at
             /\ rating'[i].user = rating[i].user]_vars

\* the ledger holds the row of a bet claim and a later row of another
\* operation
C35_RowsOfTwoOperations ==
    \E i, j \in DOMAIN rating :
        i < j /\ rating[i].bet_id # 0 /\ rating[j].bet_id = 0

\* C38: reconciliation skips no source for good: a run for a user during
\* which nothing else changes the tables leaves every winning bet of the
\* user and every prize of the user with a value in points credited in the
\* ledger, wherever earlier ledger writes have put the cursor.
C38_NoSourceSkipped ==
    [][\A p \in Procs :
          (pc[p] = "ua_add" /\ pc'[p] = "ua_totals" /\ Tables = loc[p].start) =>
             LET user == loc[p].user
             IN  /\ \A b \in DOMAIN bets :
                       (bets[b].user = user
                          /\ determinePrizeStatus(bets[b]) = "win")
                       => BetCredits(b)' # {}
                 /\ \A k \in DOMAIN got_prizes :
                       (got_prizes[k].user = user
                          /\ parsePrizeValueToPoints(got_prizes[k].prize_value).ok)
                       => PrizeCredits(got_prizes[k].id)' # {}]_vars

(***************************************************************************)
(* Claims about the preauth token                                          *)
(***************************************************************************)
LowerHex == {hextable[i] : i \in DOMAIN hextable}

C32_PrizeForTopK ==
    [][\A p \in Procs :
          (/\ pc[p] = "ps_update" /\ pc'[p] = "idle"
           /\ user_events'[loc[p].event] # user_events[loc[p].event]) =>
             LET ev == loc[p].event
                 place == loc[p].place
                 K == Cardinality(EventPrizeValuesOf(ev))
                 row == user_events'[ev]
             IN  IF place >= 1 /\ place <= K
                 THEN /\ row.has_prise_status = "true"
                      /\ row.prize_value_id =
                            SortByValueDesc(EventPrizeValuesOf(ev))[place].id
                 ELSE /\ row.has_prise_status = "false"
                      /\ row.prize_value_id = 0]_vars

\* C33: on every user event has_prise_status changes at most once, from
\* unresolved to true or false, and prize_taken_status changes at most once,
\* from false to true: no step, of repeated or of concurrent calls, changes
\* a resolved status or its prize_value_id, or resets a taken prize.
C33_StatusResolvedOnce ==
    [][\A ev \in PrizeEvents :
          LET old == user_events[ev]
              new == user_events'[ev]
          IN  /\ new.has_prise_status \in {"null", "true", "false"}
              /\ old.has_prise_status # "null" =>
                     /\ new.has_prise_status = old.has_prise_status
                     /\ new.prize_value_id = old.prize_value_id
              /\ old.has_prise_status = "null" /\ new.has_prise_status = "null"
                     => new.prize_value_id = old.prize_value_id
              /\ old.prize_taken_status => new.prize_taken_status]_vars

\* a call that read the status unresolved is about to write another status
\* than the one a concurrent call has stored meanwhile
C33_LateConcurrentUpdate ==
    \E p \in Procs :
        /\ pc[p] = "ps_update"
        /\ user_events[loc[p].event].has_prise_status # "null"
        /\ user_events[loc[p].event].has_prise_status # loc[p].hasPrise

(***************************************************************************)
(* The scheduler's tasks: ScheduleBetClosing, CancelBetClosing, Shutdown   *)
(***************************************************************************)
\* the runs of the scheduler start a tick earlier, which leaves the time
\* for a scheduled bet to expire
SchedStart == StartTime - 1
SchedInit == InitAt(SchedStart)

\* requests that pass OpenBet's validation; the scheduler does not look at
\* the side, the sum or the open price
ValidOpenBet(p) ==
    \E openTime \in OpenTimes : OpenBet(p, "pump", 1, 1, 2, openTime)

SchedNext ==
    \/ Tick
    \/ \E p \in Procs : ValidOpenBet(p)
    \/ \E p \in Procs : OpenFetch(p)
    \/ \E p \in Procs : OpenWrite(p)
    \/ \E b \in BetIDs : scheduleCloseBet(b)
    \/ \E b \in BetIDs : closeBet(b)
    \/ \E b \in BetIDs : closeBetFail(b)
    \/ \E b \in BetIDs : CancelBetClosing(b)
    \/ Shutdown
    \/ ShutdownReturn

\* the goroutines of the tasks are scheduled, and their calls return
SpecSched ==
    /\ SchedInit /\ [][SchedNext]_vars
    /\ WF_vars(\E b \in BetIDs : scheduleCloseBet(b))

\* every bet ScheduleBetClosing was called for was handled in one of two
\* ways, chosen by its close time; a task settles at most once and not
\* before the close time, and a task that has ended settled unless a
\* cancel signal ended it
TaskDiscipline ==
    \A b \in DOMAIN bets :
        LET log == taskLog[b]
            closeAt == ExpectedCloseTime(bets[b])
        IN  /\ log.immediate = (IF closeAt <= log.at THEN 1 ELSE 0)
            /\ log.started = (IF closeAt <= log.at THEN 0 ELSE 1)
            /\ log.settles <= log.started
            /\ log.settles = 1 => now >= closeAt
            /\ sched[b].st = "waiting" => log.settles = 0
            /\ (log.started = 1 /\ sched[b].st # "waiting" /\ ~log.cancelled)
                   => log.settles = 1

\* C25: ScheduleBetClosing settles at once, inside the call, when the close
\* time is not after the present; otherwise it starts exactly one task,
\* which invokes the settlement exactly once, when the close time is
\* reached, unless a cancel or the shutdown ends it first.
C25_ScheduleSettlesOnce ==
    /\ []TaskDiscipline
    /\ \A b \in BetIDs :
          TimerDue(b) ~> (taskLog[b].settles = 1 \/ taskLog[b].cancelled)

\* a task has settled its bet at the close time
C25_TaskSettled ==
    \E b \in DOMAIN bets :
        /\ taskLog[b].started = 1 /\ taskLog[b].settles = 1
        /\ closeWrites[b] = 1 /\ bets[b].close_price # NullPrice

\* C26: CancelBetClosing removes the bet's entry from the map and ends a
\* task whose timer has not fired; a task ended by a cancel never settles
\* and never writes close_price, and a settlement that has fetched its
\* price is left to complete.
C26_CancelStopsTask ==
    /\ [][\A b \in BetIDs :
            taskLog'[b].cancels > taskLog[b].cancels =>
               /\ b \notin timers'
               /\ (sched[b].st = "waiting" /\ ~TimerDue(b)) =>
                     sched'[b].st = "none" /\ taskLog'[b].cancelled
               /\ sched[b].st = "fetched" => sched'[b] = sched[b]]_vars
    /\ [](\A b \in BetIDs :
            taskLog[b].cancelled =>
               taskLog[b].settles = 0 /\ closeWrites[b] = 0
               /\ (b \in DOMAIN bets => bets[b].close_price = NullPrice))

\* a task was cancelled and its close time has passed without a settlement
C26_CancelledPastClose ==
    \E b \in DOMAIN bets :
        /\ taskLog[b].cancels = 1 /\ taskLog[b].cancelled
        /\ now >= ExpectedCloseTime(bets[b])
        /\ bets[b].close_price = NullPrice

\* valid requests whose close time is in the future: ScheduleBetClosing
\* starts a task for them
ScheduledOpenBet(p) ==
    \E openTime \in {t \in OpenTimes : t + Seconds(1) > now} :
       OpenBet(p, "pump", 1, 1, 2, openTime)

ShutdownNext ==
    \/ Tick
    \/ \E p \in Procs : ScheduledOpenBet(p)
    \/ \E b \in BetIDs : scheduleCloseBet(b)
    \/ \E b \in BetIDs : closeBet(b)
    \/ \E b \in BetIDs : closeBetFail(b)
    \/ Shutdown
    \/ ShutdownSecond
    \/ ShutdownReturn

\* the goroutines are scheduled, the calls of a task return, by their
\* timeouts at the latest, and Wait returns once the tasks have ended
SpecShutdown ==
    /\ SchedInit /\ [][ShutdownNext]_vars
    /\ WF_vars(\E b \in BetIDs : scheduleCloseBet(b))
    /\ WF_vars(\E b \in BetIDs : closeBet(b) \/ closeBetFail(b))
    /\ WF_vars(ShutdownReturn)

\* the deadline the shutdown is to keep, in seconds
ShutdownGrace == 10

RestartNext ==
    \/ Tick
    \/ \E p \in Procs : ValidOpenBet(p)
    \/ \E p \in Procs : OpenFetch(p)
    \/ \E p \in Procs : OpenWrite(p)
    \/ \E b \in BetIDs : scheduleCloseBet(b)
    \/ \E b \in BetIDs : closeBet(b)
    \/ \E b \in BetIDs : closeBetFail(b)
    \/ \E p \in Procs, b \in BetIDs : StatusRead(p, b, BetUser)
    \/ \E p \in Procs : StatusFetch(p)
    \/ \E p \in Procs : StatusWrite(p)
    \/ Restart

SpecRestart == SchedInit /\ [][RestartNext]_vars

\* a bet whose timeframe has passed and which has no close price
ExpiredUnsettled(b) ==
    /\ b \in DOMAIN bets
    /\ bets[b].close_price = NullPrice
    /\ ExpectedCloseTime(bets[b]) < now

\* C28: when the process has restarted and the timer of a bet was lost,
\* the bet, having close_price null and open_time + timeframe < now, is
\* settled without a client request: the start-up takes up each such bet,
\* so that after it the bet is settled or its settlement is under way.
C28_StartupSweep ==
    [][shut'.boots > shut.boots =>
          \A b \in timers :
             ExpiredUnsettled(b) =>
                bets'[b].close_price # NullPrice \/ sched'[b].st # "none"]_vars

RetryNext ==
    \/ Tick
    \/ ScheduledOpenBet(Opener)
    \/ \E b \in BetIDs : scheduleCloseBet(b)
    \/ \E b \in BetIDs : closeBet(b)
    \/ \E b \in BetIDs : closeBetFail(b)
    \/ \E b \in BetIDs : StatusRead(Poller, b, BetUser)
    \/ \E p \in Procs : StatusFetch(p)
    \/ \E p \in Procs : StatusWrite(p)

SpecRetry == SchedInit /\ [][RetryNext]_vars

\* the step is a GetBetStatus call for bet b that returns the stored row
\* without a settlement attempt
StatusReturnedAtOnce(b) ==
    /\ calls' = calls + 1 /\ pc' = pc
    /\ resp'.op = "status" /\ resp'.ok /\ resp'.bet = b

UnfinishedRows(user) ==
    {b \in DOMAIN bets : bets[b].user = user /\ bets[b].close_price = NullPrice}

\* ORDER BY open_time DESC: the rows in an order of non-increasing open
\* time; rows of equal open time come in any order
OrderedByOpenTimeDesc(rows, list) ==
    /\ Len(list) = Cardinality(rows)
    /\ {list[i] : i \in DOMAIN list} = rows
    /\ \A i, j \in DOMAIN list :
          i < j => bets[list[i]].open_time >= bets[list[j]].open_time

\* GetUnfinishedBetsByUser: one SELECT; the response lists the bet ids
GetUnfinishedBetsByUser(p, user) ==
    /\ Begin(p)
    /\ \E list \in UNION {[1..n -> BetIDs] : n \in 0..MaxBets} :
          /\ OrderedByOpenTimeDesc(UnfinishedRows(user), list)
          /\ Return(p, [NoResp EXCEPT !.op = "unfinished", !.ok = TRUE,
                                      !.user = user, !.list = list])
    /\ UNCHANGED <<ledgerVars, achVars, betVars, now, preauth_token,
                   roulette, users, got_prizes,
                   rating, spinObs>>

UnfinishedNext ==
    \/ \E p \in Procs, side \in {"pump", "dump"} :
          OpenBet(p, side, 1, 1, 2, now - Seconds(1))
    \/ \E p \in Procs : OpenFetch(p)
    \/ \E p \in Procs : OpenWrite(p)
    \/ \E p \in Procs, b \in BetIDs, user \in Users : ClaimRead(p, b, user)
    \/ \E p \in Procs : ClaimUpdate(p)
    \/ \E p \in Procs : ClaimAdd(p)
    \/ \E p \in Procs, user \in Users : GetUnfinishedBetsByUser(p, user)

SpecUnfinished == Init /\ [][UnfinishedNext]_vars

\* the step is a get_unfinished_bets call that returns
UnfinishedReturned ==
    calls' = calls + 1 /\ pc' = pc /\ resp'.op = "unfinished" /\ resp'.ok

\* C30: a get_unfinished_bets call returns exactly the user's bets that
\* are open or settled and not yet claimed, newest first: a settled bet is
\* in the list until it is claimed.
C30_UnfinishedIncludesUnclaimed ==
    [][UnfinishedReturned =>
          LET listed == {resp'.list[i] : i \in DOMAIN resp'.list}
          IN  /\ listed = {b \in DOMAIN bets :
                              /\ bets[b].user = resp'.user
                              /\ \/ bets[b].close_price = NullPrice
                                 \/ ~bets[b].claimed}
              /\ \A i, j \in DOMAIN resp'.list :
                    i < j => bets[resp'.list[i]].open_time
                                >= bets[resp'.list[j]].open_time]_vars

(***************************************************************************)
(* The whole backend                                                       *)
(***************************************************************************)
Next ==
    \/ RouletteNext \/ EventNext \/ BetNext \/ LedgerNext \/ AchNext
    \/ WinNext \/ OnWinNext \/ AchClaimNext \/ EventPrizeNext
    \/ SchedNext \/ ShutdownNext \/ RestartNext \/ RetryNext
    \/ UnfinishedNext

Spec == Init /\ [][Next]_vars
====
